---- MODULE Spec2Model ----
(***************************************************************************)
(* Agent session orchestration of cognal: the AgentManager                 *)
(* (src/agents/manager.ts) driving the provider adapters                   *)
(* (src/agents/agentAdapter.ts) and the session-binding store.             *)
(*                                                                         *)
(* Every manager operation is an async function; one action of this model  *)
(* is the resolution of one await together with the synchronous code that  *)
(* follows it up to the next await.  op.pc names the await an operation is *)
(* suspended at.                                                           *)
(***************************************************************************)
EXTENDS Integers, Sequences, FiniteSets, TLC

VARIABLES
    adapters,   \* AgentManager.adapters: the providers that have an adapter
    options,    \* AgentManager.options: failoverEnabled, defaultAgent
    binding,    \* Db: one SessionBinding row per user (or NoRow)
    runtimePid, \* Db: the recorded process id per (user, provider); 0 = cleared
    runtimes,   \* AgentManager.runtimes: userId -> pid of the RunningAgent, 0 = no entry
    procs,      \* every RunningAgent returned by adapter.start, indexed by pid
    op,         \* the switchAgent / sendToActive call in flight (or the last one)
    sd,         \* the shutdownAll call in flight (or the last one)
    runtime,    \* BaseCliAgentAdapter: one RunningAgent and its child process
    sendCall,   \* BaseCliAgentAdapter.send: the closure of the call on that runtime
    stopCall,   \* BaseCliAgentAdapter.stop: the closure of the call on that runtime
    startCall,  \* BaseCliAgentAdapter.start: the call that spawns a process
    daemon      \* the daemon's message loop and the inbound event it processes

\* the state of the manager and its store
managerVars == <<adapters, options, binding, runtimePid, runtimes, procs, op, sd>>

\* the state of the adapter's protocol engine
adapterVars == <<runtime, sendCall, stopCall, startCall>>

vars == <<adapters, options, binding, runtimePid, runtimes, procs, op, sd,
          runtime, sendCall, stopCall, startCall, daemon>>

----------------------------------------------------------------------------
(* Bounds and value sets *)

\* adapter.start succeeds at most MaxProcs times in one behaviour
MaxProcs == 3

AgentType == {"claude", "codex"}

Users == {"u1", "u2"}

Null == "null"

\* session refs: a ref persisted by an earlier run of the daemon, and the session
\* identifier a transcript yields
StaleRef == "r0"
NewRef == "s1"
SessionRefs == {StaleRef, NewRef}

\* user inputs, as sequences of text fragments
Inputs == {<<"hello">>}

\* response texts an agent can produce for one send
ResponseTexts == {<<"fallback-response">>}

NoRow == [userId |-> Null]

----------------------------------------------------------------------------
(* Pure helpers of the manager *)

otherAgent(agent) == IF agent = "claude" THEN "codex" ELSE "claude"

\* (mutant) no provider is ever taken to be disabled
requireAdapterAlways(agent) == TRUE

\* requireAdapter(agent) returns the adapter, or throws the 'disabled' error
requireAdapter(agent) == agent \in adapters

\* (mutant) a disabled active provider is kept
ensureAgentEnabledNever(agent) == agent

\* ensureAgentEnabled(agent): the agent when it has an adapter, else the default
ensureAgentEnabled(agent) ==
    IF agent \in adapters THEN agent ELSE options.defaultAgent

----------------------------------------------------------------------------
(* The session-binding store (Db): getBinding, setActiveAgent,              *)
(* updateSessionRef, setRuntimePid, clearRuntimePid                         *)

\* the row getBinding inserts: active_agent 'codex', whatever the default agent
\* the caller passes
DefaultRow(userId) ==
    [userId |-> userId, activeAgent |-> "codex",
     claudeSessionRef |-> Null, codexSessionRef |-> Null]

\* getBinding(userId) inserts the default row when the user has none
getBinding(b, userId) ==
    IF b[userId] = NoRow THEN [b EXCEPT ![userId] = DefaultRow(userId)] ELSE b

setActiveAgent(b, userId, agent) ==
    IF b[userId] = NoRow THEN b ELSE [b EXCEPT ![userId].activeAgent = agent]

updateSessionRef(b, userId, agent, ref) ==
    IF b[userId] = NoRow THEN b
    ELSE IF agent = "claude" THEN [b EXCEPT ![userId].claudeSessionRef = ref]
    ELSE [b EXCEPT ![userId].codexSessionRef = ref]

setRuntimePid(rp, userId, agent, pid) == [rp EXCEPT ![userId][agent] = pid]

clearRuntimePid(rp, userId, agent) == [rp EXCEPT ![userId][agent] = 0]

\* (variant) every ref a stop or a send returns is persisted
hasRefAlways(ref) == TRUE

\* `if (stoppedRef)`, `if (sessionRef)`, `if (output.sessionRef)`: the guard of
\* every updateSessionRef call
hasRef(ref) == ref # Null

\* (variant) no stored ref is read from the snapshot
SessionRefNone(row, agent) == Null

\* startForBinding: the stored ref of the provider in a binding snapshot
SessionRefOf(row, agent) ==
    IF agent = "claude" THEN row.claudeSessionRef ELSE row.codexSessionRef

----------------------------------------------------------------------------
(* The runtime map, in insertion order (a JavaScript Map)                   *)

\* this.runtimes.get(userId): the pid of the user's entry, 0 when there is none
RuntimeOf(rts, userId) ==
    IF \E i \in 1..Len(rts) : procs[rts[i]].userId = userId
    THEN rts[CHOOSE i \in 1..Len(rts) : procs[rts[i]].userId = userId]
    ELSE 0

\* the runtime map keeps the entry of the user
RuntimesKeep(rts, userId) == rts

\* (variant) the map is cleared
RuntimesClear(rts, userId) == <<>>

\* this.runtimes.delete(userId)
RuntimesDelete(rts, userId) ==
    SelectSeq(rts, LAMBDA p : procs[p].userId # userId)

\* this.runtimes.set(userId, runtime), runtime being procs'[pid] of user userId
RuntimesSet(rts, userId, pid) ==
    IF \E i \in 1..Len(rts) : procs[rts[i]].userId = userId
    THEN [i \in 1..Len(rts) |-> IF procs[rts[i]].userId = userId THEN pid ELSE rts[i]]
    ELSE Append(rts, pid)

----------------------------------------------------------------------------
(* The calls an operation makes, in order (what the tests' call counters    *)
(* and a recording Db would observe)                                        *)

Ev(call, agent) ==
    [call |-> call, agent |-> agent, ref |-> Null, fresh |-> FALSE,
     input |-> <<>>, err |-> Null, pid |-> 0]

EvRef(call, agent, ref) == [Ev(call, agent) EXCEPT !.ref = ref]

EvStart(agent, ref, fresh) == [Ev("start", agent) EXCEPT !.ref = ref, !.fresh = fresh]

EvSend(agent, input) == [Ev("send", agent) EXCEPT !.input = input]

EvErr(call, agent, err) == [Ev(call, agent) EXCEPT !.err = err]

EvPid(call, agent, pid) == [Ev(call, agent) EXCEPT !.pid = pid]

NoResult == [status |-> "none", text |-> <<>>, sessionRef |-> Null, err |-> Null, errAgent |-> Null]

IdleOp ==
    [pc |-> "idle", kind |-> "none", userId |-> Null, target |-> Null, input |-> <<>>,
     row |-> NoRow, activeAgent |-> Null, agent |-> Null, ret |-> Null,
     runtime |-> 0, stoppedRef |-> Null, err |-> Null, errAgent |-> Null,
     sessionRef |-> Null, text |-> <<>>,
     result |-> NoResult, log |-> <<>>,
     \* for a switchAgent that repeats the call made just before it: how that
     \* call ended ("ok", or its error), else "none"
     repeatOf |-> "none",
     \* for a sendToActive whose first send failed: the ref the store held for the
     \* failed provider at that moment, else "none"
     refAtFailure |-> "none",
     \* for a switchAgent to the provider whose send failed in the sendToActive
     \* made just before it: that call's refAtFailure, else "none"
     back |-> "none"]

\* all: the entries shutdownAll copied from the map when it was called
\* during: shutdownAll was called while another operation was suspended
IdleSd ==
    [pc |-> "idle", entries |-> <<>>, all |-> <<>>, stoppedRef |-> Null, log |-> <<>>,
     during |-> FALSE]

NewOp(kind, userId, target, input) ==
    [IdleOp EXCEPT !.kind = kind, !.userId = userId, !.target = target, !.input = input,
                   !.repeatOf = IF kind = "switch" /\ op.pc = "done" /\ op.kind = kind
                                   /\ op.userId = userId /\ op.target = target
                                THEN (IF op.result.status = "ok" THEN "ok" ELSE op.result.err)
                                ELSE "none",
                   !.back = IF kind = "switch" /\ op.pc = "done" /\ op.kind = "send"
                               /\ op.userId = userId /\ op.errAgent = target
                            THEN op.refAtFailure
                            ELSE "none"]

Logged(o, evs) == [o EXCEPT !.log = o.log \o evs]

\* the operation's promise rejects with err
Reject(o, err, errAgent) ==
    [o EXCEPT !.pc = "done",
              !.result = [status |-> "rejected", text |-> <<>>, sessionRef |-> Null,
                          err |-> err, errAgent |-> errAgent]]

\* the operation's promise resolves
Resolve(o, text, sessionRef) ==
    [o EXCEPT !.pc = "done",
              !.result = [status |-> "ok", text |-> text, sessionRef |-> sessionRef,
                          err |-> Null, errAgent |-> Null]]

----------------------------------------------------------------------------
(* Continuations shared by switchAgent and sendToActive: each returns the   *)
(* operation's record suspended at its next await                           *)

\* (mutant) the alternate's response is returned without the marker
FailoverTextNoMarker(fallbackAgent, text) == text

\* the text of a failover response: `[Failover -> ${fallbackAgent}]\n\n${output.text}`
FailoverText(fallbackAgent, text) == <<"[Failover -> ", fallbackAgent, "]", "\n\n">> \o text

\* the input resent to the alternate provider
HandoffInput(input) ==
    <<"[Automatic failover from previous agent due to runtime error.]", "\n\n",
      "Continue from this latest user request:", "\n\n">> \o input

\* adapter.send is called on the operation's runtime
IssueSend(o, pid) ==
    IF o.ret = "fo"
    THEN Logged([o EXCEPT !.pc = "send", !.runtime = pid],
                <<EvSend(procs[pid].agent, HandoffInput(o.input))>>)
    ELSE Logged([o EXCEPT !.pc = "send", !.runtime = pid],
                <<EvSend(procs[pid].agent, o.input)>>)

\* stopRuntime(runtime): adapter.stop is called
IssueStop(o, pid) ==
    Logged([o EXCEPT !.pc = "stop", !.runtime = pid], <<EvPid("stop", procs[pid].agent, pid)>>)

\* startForBinding up to its first await: adapter.start in resume mode
startForBinding(o, agent) ==
    IF ~requireAdapter(agent) THEN Reject(o, "disabled", agent)
    ELSE Logged([o EXCEPT !.pc = "start_resume", !.agent = agent],
                <<EvStart(agent, SessionRefOf(o.row, agent), FALSE)>>)

\* ensureRuntime: the existing entry is reused when it is the agent's and alive
EnsureReuses(existing, agent) ==
    existing # 0 /\ procs[existing].agent = agent /\ procs[existing].alive

\* ensureRuntime up to its first await
ensureRuntime(o, agent) ==
    LET existing == RuntimeOf(runtimes, o.userId)
        o1 == [o EXCEPT !.agent = agent]
    IN  IF ~requireAdapter(agent) THEN Reject(o1, "disabled", agent)
        ELSE IF EnsureReuses(existing, agent) THEN IssueSend(o1, existing)
        ELSE IF existing # 0 THEN IssueStop(o1, existing)
        ELSE startForBinding(o1, agent)

\* (mutant) switchAgent restarts the runtime even when it is the target's
SwitchNeverNoop(current, target) == FALSE

\* switchAgent returns at once when the installed runtime is the target's
SwitchIsNoop(current, target) == current # 0 /\ procs[current].agent = target

\* (mutant) the catch block fails over whatever the configuration
FailoverAlways(agent) == TRUE

\* (mutant) the catch block does not check that the alternate has an adapter
FailoverIfEnabled(agent) == options.failoverEnabled

\* sendToActive's catch block fails over when enabled and the alternate has an adapter
FailoverAllowed(agent) == options.failoverEnabled /\ otherAgent(agent) \in adapters

NoCall == op.pc \in {"idle", "done"}

NoShutdown == sd.pc \in {"idle", "done"}

----------------------------------------------------------------------------
(* switchAgent(userId, target) *)

\* the call: requireAdapter(target), then getBinding is awaited
SwitchBegin(userId, target) ==
    /\ NoCall /\ NoShutdown
    /\ LET o == NewOp("switch", userId, target, <<>>)
       IN  op' = IF ~requireAdapter(target) THEN Reject(o, "disabled", target)
                 ELSE Logged([o EXCEPT !.pc = "sw_getBinding"], <<Ev("getBinding", Null)>>)
    /\ sd' = IdleSd
    /\ UNCHANGED <<adapterVars, daemon>>
    /\ UNCHANGED <<adapters, options, binding, runtimePid, runtimes, procs>>

\* getBinding resolved: current = runtimes.get(userId); no-op, stop it, or setActiveAgent
SwitchGotBinding ==
    /\ op.pc = "sw_getBinding"
    /\ binding' = getBinding(binding, op.userId)
    /\ LET current == RuntimeOf(runtimes, op.userId)
           o == [op EXCEPT !.row = binding'[op.userId], !.ret = "sw"]
       IN  op' = IF SwitchIsNoop(current, op.target) THEN Resolve(o, <<>>, Null)
                 ELSE IF current # 0 THEN IssueStop(o, current)
                 ELSE Logged([o EXCEPT !.pc = "sw_setActive"],
                             <<Ev("setActiveAgent", op.target)>>)
    /\ UNCHANGED <<adapterVars, daemon>>
    /\ UNCHANGED <<adapters, options, runtimePid, runtimes, procs, sd>>

\* setActiveAgent(userId, target) resolved; getBinding is awaited again
SwitchSetActive ==
    /\ op.pc = "sw_setActive"
    /\ binding' = setActiveAgent(binding, op.userId, op.target)
    /\ op' = Logged([op EXCEPT !.pc = "sw_getBinding2"], <<Ev("getBinding", Null)>>)
    /\ UNCHANGED <<adapterVars, daemon>>
    /\ UNCHANGED <<adapters, options, runtimePid, runtimes, procs, sd>>

\* updatedBinding read; startForBinding(userId, target, updatedBinding)
SwitchGotBinding2 ==
    /\ op.pc = "sw_getBinding2"
    /\ binding' = getBinding(binding, op.userId)
    /\ op' = startForBinding([op EXCEPT !.row = binding'[op.userId]], op.target)
    /\ UNCHANGED <<adapterVars, daemon>>
    /\ UNCHANGED <<adapters, options, runtimePid, runtimes, procs, sd>>

----------------------------------------------------------------------------
(* stopRuntime(runtime) and what follows it in switchAgent / ensureRuntime  *)

\* a RunningAgent the map no longer holds and no call in flight still uses is
\* unreachable: its sessionRef and outputBuffer are no state of the program. Its
\* process is, while it lives; once it has exited too nothing of it is left
Gone == [userId |-> Null, agent |-> Null, alive |-> FALSE, sessionRef |-> Null, buf |-> Null]

Forget(p, pid, held) ==
    IF held THEN p
    ELSE IF p[pid].alive THEN [p EXCEPT ![pid].sessionRef = Null, ![pid].buf = Null]
    ELSE [p EXCEPT ![pid] = Gone]

HeldByShutdown(pid) == \E i \in 1..Len(sd.entries) : sd.entries[i] = pid

HeldByCall(pid) == ~NoCall /\ op.runtime = pid

\* BaseCliAgentAdapter.stop: the runtime's ref when the process is gone already,
\* else the ref extracted from the transcript, else the runtime's ref
StopResult(rt) ==
    IF ~rt.alive THEN rt.sessionRef
    ELSE IF rt.buf # Null THEN rt.buf ELSE rt.sessionRef

\* (mutant) switchAgent starts the target without persisting it as active
AfterStopNoSetActive(o) ==
    IF o.ret = "sw" THEN startForBinding([o EXCEPT !.runtime = 0], o.target)
    ELSE startForBinding([o EXCEPT !.runtime = 0], o.agent)

\* the code after `const stoppedRef = await this.stopRuntime(...)`, once the ref is
\* persisted and the entry deleted
AfterStop(o) ==
    IF o.ret = "sw"
    THEN Logged([o EXCEPT !.pc = "sw_setActive", !.runtime = 0],
                <<Ev("setActiveAgent", o.target)>>)
    ELSE startForBinding([o EXCEPT !.runtime = 0], o.agent)

\* adapter.stop resolved; clearRuntimePid is awaited
StopResolved ==
    /\ op.pc = "stop"
    /\ procs' = [procs EXCEPT ![op.runtime].alive = FALSE]
    /\ op' = Logged([op EXCEPT !.pc = "stop_clearPid", !.stoppedRef = StopResult(procs[op.runtime])],
                    <<EvPid("stop:resolved", procs[op.runtime].agent, op.runtime),
                      Ev("clearRuntimePid", procs[op.runtime].agent)>>)
    /\ UNCHANGED <<adapterVars, daemon>>
    /\ UNCHANGED <<adapters, options, binding, runtimePid, runtimes, sd>>

\* clearRuntimePid resolved, stopRuntime returns: persist the ref if any, else delete
StopClearedPid ==
    /\ op.pc = "stop_clearPid"
    /\ runtimePid' = clearRuntimePid(runtimePid, procs[op.runtime].userId, procs[op.runtime].agent)
    /\ IF hasRef(op.stoppedRef)
       THEN /\ op' = Logged([op EXCEPT !.pc = "stop_updRef"],
                            <<EvRef("updateSessionRef", procs[op.runtime].agent, op.stoppedRef)>>)
            /\ UNCHANGED runtimes
            /\ UNCHANGED procs
       ELSE /\ runtimes' = RuntimesDelete(runtimes, op.userId)
            /\ procs' = Forget(procs, op.runtime, HeldByShutdown(op.runtime))
            /\ op' = AfterStop(op)
    /\ UNCHANGED <<adapterVars, daemon>>
    /\ UNCHANGED <<adapters, options, binding, sd>>

\* updateSessionRef(userId, existing.agent, stoppedRef) resolved; runtimes.delete(userId)
StopUpdatedRef ==
    /\ op.pc = "stop_updRef"
    /\ binding' = updateSessionRef(binding, op.userId, procs[op.runtime].agent, op.stoppedRef)
    /\ runtimes' = RuntimesDelete(runtimes, op.userId)
    /\ procs' = Forget(procs, op.runtime, HeldByShutdown(op.runtime))
    /\ op' = AfterStop(op)
    /\ UNCHANGED <<adapterVars, daemon>>
    /\ UNCHANGED <<adapters, options, runtimePid, sd>>

----------------------------------------------------------------------------
(* startForBinding(userId, agent, binding) *)

\* the RunningAgent adapter.start returns: the process is alive, the buffer empty
NewRuntime(userId, agent, sessionRef) ==
    [userId |-> userId, agent |-> agent, alive |-> TRUE, sessionRef |-> sessionRef, buf |-> Null]

\* adapter.start({sessionRef, fresh: false}) resolved; setRuntimePid is awaited
StartResumeOk ==
    /\ op.pc = "start_resume"
    /\ Len(procs) < MaxProcs
    /\ procs' = Append(procs, NewRuntime(op.userId, op.agent, SessionRefOf(op.row, op.agent)))
    /\ op' = Logged([op EXCEPT !.pc = "start_setPid", !.runtime = Len(procs) + 1],
                    <<Ev("start:ok", op.agent), EvPid("setRuntimePid", op.agent, Len(procs) + 1)>>)
    /\ UNCHANGED <<adapterVars, daemon>>
    /\ UNCHANGED <<adapters, options, binding, runtimePid, runtimes, sd>>

\* adapter.start({fresh: false}) rejected; adapter.start({sessionRef: null, fresh: true})
StartResumeFailed ==
    /\ op.pc = "start_resume"
    /\ op' = Logged([op EXCEPT !.pc = "start_fresh"],
                    <<Ev("start:failed", op.agent), EvStart(op.agent, Null, TRUE)>>)
    /\ UNCHANGED <<adapterVars, daemon>>
    /\ UNCHANGED <<adapters, options, binding, runtimePid, runtimes, procs, sd>>

\* the fresh start resolved; setRuntimePid is awaited
StartFreshOk ==
    /\ op.pc = "start_fresh"
    /\ Len(procs) < MaxProcs
    /\ procs' = Append(procs, NewRuntime(op.userId, op.agent, Null))
    /\ op' = Logged([op EXCEPT !.pc = "start_setPid", !.runtime = Len(procs) + 1],
                    <<Ev("start:ok", op.agent), EvPid("setRuntimePid", op.agent, Len(procs) + 1)>>)
    /\ UNCHANGED <<adapterVars, daemon>>
    /\ UNCHANGED <<adapters, options, binding, runtimePid, runtimes, sd>>

\* (variant) a startup failure of the active provider is handled like a send failure
startupFailsOver(o) ==
    IF o.kind = "send" /\ o.ret = "sa" /\ FailoverAllowed(o.agent)
    THEN Logged([o EXCEPT !.pc = "fo_setActive", !.err = "startup", !.errAgent = o.agent,
                          !.agent = otherAgent(o.agent)],
                <<Ev("start:failed", o.agent), Ev("setActiveAgent", otherAgent(o.agent))>>)
    ELSE Reject(Logged(o, <<Ev("start:failed", o.agent)>>), "startup", o.agent)

\* the error of the fresh start leaves startForBinding and ensureRuntime, which
\* sendToActive and switchAgent call outside any try block
startupFailed(o) == Reject(Logged(o, <<Ev("start:failed", o.agent)>>), "startup", o.agent)

\* the fresh start rejected too: the error propagates to the caller
StartFreshFailed ==
    /\ op.pc = "start_fresh"
    /\ op' = startupFailed(op)
    /\ UNCHANGED <<adapterVars, daemon>>
    /\ UNCHANGED <<adapters, options, binding, runtimePid, runtimes, procs, sd>>

\* setRuntimePid resolved, startForBinding returns: runtimes.set(userId, runtime)
StartSetPid ==
    /\ op.pc = "start_setPid"
    /\ runtimePid' = setRuntimePid(runtimePid, op.userId, op.agent, op.runtime)
    /\ runtimes' = RuntimesSet(runtimes, op.userId, op.runtime)
    /\ op' = IF op.ret = "sw" THEN Resolve(op, <<>>, Null) ELSE IssueSend(op, op.runtime)
    /\ UNCHANGED <<adapterVars, daemon>>
    /\ UNCHANGED <<adapters, options, binding, procs, sd>>

----------------------------------------------------------------------------
(* BaseCliAgentAdapter.send, as the manager observes it *)

\* extractSessionRef over the transcript after more output arrived: the first
\* match in the transcript wins, so an identifier once found stays
BufAfter(buf) == IF buf = Null THEN {Null, NewRef} ELSE {buf}

\* finish(): extractSessionRef(runtime.outputBuffer) ?? runtime.sessionRef
Extracted(rt, newBuf) == IF newBuf # Null THEN newBuf ELSE rt.sessionRef

\* the errors a send on this runtime can reject with, and whether the process
\* is alive afterwards
SendFailures(rt) ==
    IF rt.alive
    THEN {[err |-> "timed out", alive |-> TRUE], [err |-> "No output", alive |-> TRUE],
          [err |-> "exited unexpectedly", alive |-> FALSE]}
    ELSE {[err |-> "No output", alive |-> FALSE]}

\* the code after a successful send: persist the ref if any, then return the output
AfterSendOk(o, agent, text, sessionRef) ==
    LET o1 == [o EXCEPT !.text = text, !.sessionRef = sessionRef]
        out == IF o.ret = "fo" THEN FailoverText(o.agent, text) ELSE text
    IN  IF hasRef(sessionRef)
        THEN Logged([o1 EXCEPT !.pc = "sa_updRef"], <<EvRef("updateSessionRef", agent, sessionRef)>>)
        ELSE Resolve(o1, out, sessionRef)

\* (variant) the catch block also handles the failure of the resend
AfterSendFailedAgain(o, agent, err) ==
    Logged([o EXCEPT !.pc = "sa_clearPid", !.err = err, !.errAgent = agent],
           <<EvErr("clearRuntimePid", agent, err)>>)

\* the code after a failed send: the catch block of sendToActive (first send), or
\* the rejection of the call (resend)
AfterSendFailed(o, agent, err) ==
    IF o.ret = "fo" THEN Reject(o, err, agent)
    ELSE Logged([o EXCEPT !.pc = "sa_clearPid", !.err = err, !.errAgent = agent,
                          !.refAtFailure = IF agent = "claude"
                                           THEN binding[o.userId].claudeSessionRef
                                           ELSE binding[o.userId].codexSessionRef],
                <<EvErr("clearRuntimePid", agent, err)>>)

\* adapter.send resolved with {text, sessionRef}
AdapterSendOk ==
    /\ op.pc = "send"
    /\ procs[op.runtime].alive
    /\ \E text \in ResponseTexts, newBuf \in BufAfter(procs[op.runtime].buf) :
         LET rt == procs[op.runtime]
             ref == Extracted(rt, newBuf)
         IN  /\ procs' = [procs EXCEPT ![op.runtime].buf = newBuf, ![op.runtime].sessionRef = ref]
             /\ op' = AfterSendOk(Logged(op, <<Ev("send:ok", rt.agent)>>), rt.agent, text, ref)
    /\ UNCHANGED <<adapterVars, daemon>>
    /\ UNCHANGED <<adapters, options, binding, runtimePid, runtimes, sd>>

\* adapter.send rejected
AdapterSendFailed ==
    /\ op.pc = "send"
    /\ \E f \in SendFailures(procs[op.runtime]) :
       \E newBuf \in IF f.err = "No output" THEN {procs[op.runtime].buf}
                     ELSE BufAfter(procs[op.runtime].buf) :
         LET rt == procs[op.runtime]
         IN  /\ procs' = [procs EXCEPT ![op.runtime].buf = newBuf, ![op.runtime].alive = f.alive]
             /\ op' = AfterSendFailed(Logged(op, <<EvErr("send:failed", rt.agent, f.err)>>),
                                      rt.agent, f.err)
    /\ UNCHANGED <<adapterVars, daemon>>
    /\ UNCHANGED <<adapters, options, binding, runtimePid, runtimes, sd>>

----------------------------------------------------------------------------
(* sendToActive(userId, input) *)

\* the call: getBinding is awaited
SendBegin(userId, input) ==
    /\ NoCall /\ NoShutdown
    /\ op' = Logged([NewOp("send", userId, Null, input) EXCEPT !.pc = "sa_getBinding"],
                    <<Ev("getBinding", Null)>>)
    /\ sd' = IdleSd
    /\ UNCHANGED <<adapterVars, daemon>>
    /\ UNCHANGED <<adapters, options, binding, runtimePid, runtimes, procs>>

\* getBinding resolved: demote a disabled active agent, else ensureRuntime
SendGotBinding ==
    /\ op.pc = "sa_getBinding"
    /\ binding' = getBinding(binding, op.userId)
    /\ LET row == binding'[op.userId]
           activeAgent == ensureAgentEnabled(row.activeAgent)
           o == [op EXCEPT !.row = row, !.activeAgent = activeAgent, !.ret = "sa"]
       IN  op' = IF activeAgent # row.activeAgent
                 THEN Logged([o EXCEPT !.pc = "sa_demote"], <<Ev("setActiveAgent", activeAgent)>>)
                 ELSE ensureRuntime(o, activeAgent)
    /\ UNCHANGED <<adapterVars, daemon>>
    /\ UNCHANGED <<adapters, options, runtimePid, runtimes, procs, sd>>

\* setActiveAgent(userId, activeAgent) resolved; ensureRuntime(userId, activeAgent, binding)
SendDemoted ==
    /\ op.pc = "sa_demote"
    /\ binding' = setActiveAgent(binding, op.userId, op.activeAgent)
    /\ op' = ensureRuntime(op, op.activeAgent)
    /\ UNCHANGED <<adapterVars, daemon>>
    /\ UNCHANGED <<adapters, options, runtimePid, runtimes, procs, sd>>

\* updateSessionRef(userId, runtime.agent, output.sessionRef) resolved; return
SendUpdatedRef ==
    /\ op.pc = "sa_updRef"
    /\ binding' = updateSessionRef(binding, op.userId, procs[op.runtime].agent, op.sessionRef)
    /\ op' = Resolve(op, IF op.ret = "fo" THEN FailoverText(op.agent, op.text) ELSE op.text,
                     op.sessionRef)
    /\ UNCHANGED <<adapterVars, daemon>>
    /\ UNCHANGED <<adapters, options, runtimePid, runtimes, procs, sd>>

\* catch: clearRuntimePid(userId, runtime.agent, String(err)) resolved;
\* runtimes.delete(userId); rethrow, or setActiveAgent(userId, fallbackAgent)
SendClearedPid ==
    /\ op.pc = "sa_clearPid"
    /\ runtimePid' = clearRuntimePid(runtimePid, op.userId, procs[op.runtime].agent)
    /\ runtimes' = RuntimesDelete(runtimes, op.userId)
    /\ LET fallbackAgent == otherAgent(procs[op.runtime].agent)
           o == [op EXCEPT !.runtime = 0]
       IN  op' = IF ~FailoverAllowed(procs[op.runtime].agent) THEN Reject(o, op.err, op.errAgent)
                 ELSE Logged([o EXCEPT !.pc = "fo_setActive", !.agent = fallbackAgent],
                             <<Ev("setActiveAgent", fallbackAgent)>>)
    /\ procs' = Forget(procs, op.runtime, HeldByShutdown(op.runtime))
    /\ UNCHANGED <<adapterVars, daemon>>
    /\ UNCHANGED <<adapters, options, binding, sd>>

\* setActiveAgent(userId, fallbackAgent) resolved; getBinding is awaited
FailoverSetActive ==
    /\ op.pc = "fo_setActive"
    /\ binding' = setActiveAgent(binding, op.userId, op.agent)
    /\ op' = Logged([op EXCEPT !.pc = "fo_getBinding"], <<Ev("getBinding", Null)>>)
    /\ UNCHANGED <<adapterVars, daemon>>
    /\ UNCHANGED <<adapters, options, runtimePid, runtimes, procs, sd>>

\* fallbackBinding read; ensureRuntime(userId, fallbackAgent, fallbackBinding)
FailoverGotBinding ==
    /\ op.pc = "fo_getBinding"
    /\ binding' = getBinding(binding, op.userId)
    /\ op' = ensureRuntime([op EXCEPT !.row = binding'[op.userId], !.ret = "fo"], op.agent)
    /\ UNCHANGED <<adapterVars, daemon>>
    /\ UNCHANGED <<adapters, options, runtimePid, runtimes, procs, sd>>

----------------------------------------------------------------------------
(* shutdownAll() *)

\* the call: entries = [...this.runtimes.values()]; the first stopRuntime
ShutdownBegin ==
    /\ NoCall /\ NoShutdown
    /\ sd' = IF runtimes = <<>> THEN [IdleSd EXCEPT !.pc = "done"]
             ELSE [IdleSd EXCEPT !.pc = "sd_stop", !.entries = runtimes,
                                 !.all = [i \in 1..Len(runtimes) |->
                                            [pid |-> runtimes[i],
                                             userId |-> procs[runtimes[i]].userId,
                                             agent |-> procs[runtimes[i]].agent]],
                                 !.log = <<EvPid("stop", procs[runtimes[1]].agent, runtimes[1])>>]
    /\ op' = IdleOp
    /\ UNCHANGED <<adapterVars, daemon>>
    /\ UNCHANGED <<adapters, options, binding, runtimePid, runtimes, procs>>

\* the signal handler's call of shutdownAll while a switchAgent or sendToActive
\* is suspended at an await
ShutdownDuringCall ==
    /\ ~NoCall /\ NoShutdown
    /\ sd' = IF runtimes = <<>> THEN [IdleSd EXCEPT !.pc = "done", !.during = TRUE]
             ELSE [IdleSd EXCEPT !.pc = "sd_stop", !.entries = runtimes, !.during = TRUE,
                                 !.all = [i \in 1..Len(runtimes) |->
                                            [pid |-> runtimes[i],
                                             userId |-> procs[runtimes[i]].userId,
                                             agent |-> procs[runtimes[i]].agent]],
                                 !.log = <<EvPid("stop", procs[runtimes[1]].agent, runtimes[1])>>]
    /\ UNCHANGED <<adapterVars, daemon>>
    /\ UNCHANGED <<adapters, options, binding, runtimePid, runtimes, procs, op>>

\* adapter.stop resolved; stopRuntime awaits clearRuntimePid
ShutdownStopResolved ==
    /\ sd.pc = "sd_stop"
    /\ LET pid == sd.entries[1]
       IN  /\ procs' = [procs EXCEPT ![pid].alive = FALSE]
           /\ sd' = [sd EXCEPT !.pc = "sd_clearPid", !.stoppedRef = StopResult(procs[pid]),
                               !.log = @ \o <<[EvPid("stop:resolved", procs[pid].agent, pid)
                                                EXCEPT !.ref = StopResult(procs[pid])],
                                              EvPid("clearRuntimePid", procs[pid].agent, pid)>>]
    /\ UNCHANGED <<adapterVars, daemon>>
    /\ UNCHANGED <<adapters, options, binding, runtimePid, runtimes, op>>

\* stopRuntime returned: updateSessionRef if the ref is not null, else clearRuntimePid
ShutdownClearedPid ==
    /\ sd.pc = "sd_clearPid"
    /\ LET pid == sd.entries[1]
           rt == procs[pid]
       IN  /\ runtimePid' = clearRuntimePid(runtimePid, rt.userId, rt.agent)
           /\ sd' = IF hasRef(sd.stoppedRef)
                    THEN [sd EXCEPT !.pc = "sd_updRef",
                                    !.log = @ \o <<[EvRef("updateSessionRef", rt.agent, sd.stoppedRef)
                                                    EXCEPT !.pid = pid]>>]
                    ELSE [sd EXCEPT !.pc = "sd_clearPid2",
                                    !.log = @ \o <<EvPid("clearRuntimePid", rt.agent, pid)>>]
    /\ UNCHANGED <<adapterVars, daemon>>
    /\ UNCHANGED <<adapters, options, binding, runtimes, procs, op>>

\* updateSessionRef(runtime.userId, runtime.agent, sessionRef) resolved
ShutdownUpdatedRef ==
    /\ sd.pc = "sd_updRef"
    /\ LET pid == sd.entries[1]
           rt == procs[pid]
       IN  /\ binding' = updateSessionRef(binding, rt.userId, rt.agent, sd.stoppedRef)
           /\ sd' = [sd EXCEPT !.pc = "sd_clearPid2",
                               !.log = @ \o <<EvPid("clearRuntimePid", rt.agent, pid)>>]
    /\ UNCHANGED <<adapterVars, daemon>>
    /\ UNCHANGED <<adapters, options, runtimePid, runtimes, procs, op>>

\* clearRuntimePid resolved; runtimes.delete(runtime.userId); the next entry
ShutdownClearedPid2 ==
    /\ sd.pc = "sd_clearPid2"
    /\ LET pid == sd.entries[1]
           rt == procs[pid]
           rest == Tail(sd.entries)
       IN  /\ runtimePid' = clearRuntimePid(runtimePid, rt.userId, rt.agent)
           /\ runtimes' = RuntimesDelete(runtimes, rt.userId)
           /\ procs' = Forget(procs, pid, HeldByCall(pid))
           /\ sd' = IF rest = <<>> THEN [sd EXCEPT !.pc = "done", !.entries = rest]
                    ELSE [sd EXCEPT !.pc = "sd_stop", !.entries = rest,
                                    !.log = @ \o <<EvPid("stop", procs[rest[1]].agent, rest[1])>>]
    /\ UNCHANGED <<adapterVars, daemon>>
    /\ UNCHANGED <<adapters, options, binding, op>>

----------------------------------------------------------------------------
(* The environment: a child process exits on its own *)

ProcExit ==
    /\ \E pid \in 1..Len(procs) :
         /\ procs[pid].alive
         /\ procs' = Forget([procs EXCEPT ![pid].alive = FALSE], pid,
                            RuntimeOf(runtimes, procs[pid].userId) = pid
                            \/ HeldByCall(pid) \/ HeldByShutdown(pid))
    /\ UNCHANGED <<adapterVars, daemon>>
    /\ UNCHANGED <<adapters, options, binding, runtimePid, runtimes, op, sd>>

----------------------------------------------------------------------------
(* startForBinding when the store rejects: `await this.db.setRuntimePid`    *)
(* sits inside the try block of the resume attempt                          *)

\* the start the operation last issued was the fresh one
LastStartFresh(o) ==
    LET starts == {i \in 1..Len(o.log) : o.log[i].call = "start"}
    IN  \E i \in starts : o.log[i].fresh /\ \A j \in starts : j <= i

\* setRuntimePid rejected. After the resume start the catch block runs and
\* adapter.start({sessionRef: null, fresh: true}) is called, the runtime just
\* started being dropped; after the fresh start the error propagates
StartSetPidFailed ==
    /\ op.pc = "start_setPid"
    /\ op' = IF LastStartFresh(op)
             THEN Reject(Logged([op EXCEPT !.runtime = 0],
                                <<Ev("setRuntimePid:failed", op.agent)>>), "store", op.agent)
             ELSE Logged([op EXCEPT !.pc = "start_fresh", !.runtime = 0],
                         <<Ev("setRuntimePid:failed", op.agent), EvStart(op.agent, Null, TRUE)>>)
    /\ procs' = Forget(procs, op.runtime, FALSE)
    /\ UNCHANGED <<adapterVars, daemon>>
    /\ UNCHANGED <<adapters, options, binding, runtimePid, runtimes, sd>>

----------------------------------------------------------------------------
(* The protocol engine of BaseCliAgentAdapter: one RunningAgent, its child  *)
(* process, and the send and stop calls made on it one at a time.           *)
(* Time passes in ticks; a timer holds the ticks left until it fires.       *)

\* ticks of the idle timer (idleMs) and of the hard timer (timeoutMs) of a send
IdleTicks == 2
HardTicks == 3

\* ticks until stop sends SIGTERM (1500 ms) and until it sends SIGKILL (3500 ms)
TermTicks == 1
KillTicks == 2

\* the chunks of a transcript the model records; later chunks are received
\* but their content is not recorded (runtime.overflow)
MaxBuf == 4

\* a timer that is not armed
Off == 0 - 1

\* the chunks a process writes: white space, a session label, a word that is
\* no session identifier, a UUID-shaped token
Space == " "
Label == "session:"
Word == "ready"
Uuid == "123e4567-e89b-12d3-a456-426614174000"
Chunks == {Space, Label, Word, Uuid}

\* no session ref (null); a ref is the sequence of the chunks it spans
NoRef == <<>>

\* the part of a chunk the capture group ([a-zA-Z0-9_-]+) takes when it runs
\* into it: all of a word or a UUID, the letters of a label up to its colon
IdentPrefix(c) == IF c \in {Word, Uuid} THEN <<c>> ELSE IF c = Label THEN <<"session">> ELSE <<>>

\* the chunks made of [a-zA-Z0-9_-] throughout
IsIdent(c) == c \in {Word, Uuid}

\* the chunks that begin, and those that end, with a word character (\w)
BeginsWord(c) == c \in {Word, Uuid, Label}
EndsWord(c) == c \in {Word, Uuid}

RECURSIVE SkipSpaces(_, _)
\* \s* : the first position from j on that holds no white space
SkipSpaces(buf, j) ==
    IF j <= Len(buf) /\ buf[j] = Space THEN SkipSpaces(buf, j + 1) ELSE j

RECURSIVE IdentRun(_, _)
\* ([a-zA-Z0-9_-]+) : the longest run of identifier characters from j on
IdentRun(buf, j) ==
    IF j > Len(buf) THEN <<>>
    ELSE IF IsIdent(buf[j]) THEN <<buf[j]>> \o IdentRun(buf, j + 1)
    ELSE IdentPrefix(buf[j])

\* /session(?:\s+id)?\s*[:=]\s*([a-zA-Z0-9_-]+)/i : the positions it matches at
LabelMatches(buf) ==
    {i \in 1..Len(buf) : buf[i] = Label /\ IdentRun(buf, SkipSpaces(buf, i + 1)) # <<>>}

\* /\b(<uuid>)\b/i : the positions it matches at
UuidMatches(buf) ==
    {i \in 1..Len(buf) : /\ buf[i] = Uuid
                         /\ (i = 1 \/ ~EndsWord(buf[i - 1]))
                         /\ (i = Len(buf) \/ ~BeginsWord(buf[i + 1]))}

\* the leftmost match of a pattern
First(matches) == CHOOSE i \in matches : \A j \in matches : i <= j

\* (variant) the UUID pattern is tried before the label pattern
extractUuidFirst(buffer) ==
    IF UuidMatches(buffer) # {} THEN <<buffer[First(UuidMatches(buffer))]>>
    ELSE IF LabelMatches(buffer) # {}
    THEN IdentRun(buffer, SkipSpaces(buffer, First(LabelMatches(buffer)) + 1))
    ELSE NoRef

\* extractSessionRef(buffer): the patterns of SESSION_ID_REGEX in order, the
\* first match of the first pattern that matches
extractSessionRef(buffer) ==
    IF LabelMatches(buffer) # {}
    THEN IdentRun(buffer, SkipSpaces(buffer, First(LabelMatches(buffer)) + 1))
    ELSE IF UuidMatches(buffer) # {} THEN <<buffer[First(UuidMatches(buffer))]>>
    ELSE NoRef

RECURSIVE TrimStart(_)
TrimStart(text) ==
    IF text # <<>> /\ Head(text) = Space THEN TrimStart(Tail(text)) ELSE text

RECURSIVE TrimEnd(_)
TrimEnd(text) ==
    IF text # <<>> /\ text[Len(text)] = Space
    THEN TrimEnd(SubSeq(text, 1, Len(text) - 1)) ELSE text

\* String.prototype.trim
Trim(text) == TrimEnd(TrimStart(text))

\* (variant) the whole transcript is returned
SliceAll(buffer, before) == buffer

\* runtime.outputBuffer.slice(before)
Slice(buffer, before) == SubSeq(buffer, before + 1, Len(buffer))

NoSend ==
    [pc |-> "none", before |-> 0, done |-> FALSE, hadOutput |-> FALSE,
     idleTimer |-> Off, hardTimer |-> Off, listeners |-> FALSE,
     outcome |-> "none", text |-> <<>>, sessionRef |-> NoRef,
     \* observations: the calls of resolve and reject, the chunks received since
     \* the write, the runtime's ref at the call, the event handled last, the
     \* ticks since the call
     settled |-> 0, received |-> <<>>, refAtCall |-> NoRef, lastEvent |-> "none",
     elapsed |-> 0]

NoStop ==
    [pc |-> "none", termTimer |-> Off, killTimer |-> Off, exitListener |-> FALSE,
     result |-> NoRef,
     \* observations: what stop sent to the process, the ticks since the call,
     \* whether the process was running at the call
     signals |-> <<>>, elapsed |-> 0, early |-> FALSE]

\* (variant) finish leaves the hard timer armed
finishKeepsHardTimer(s, r, error) ==
    IF s.done THEN [sendCall |-> s, runtime |-> r]
    ELSE LET s1 == [s EXCEPT !.done = TRUE, !.idleTimer = Off,
                            !.listeners = FALSE, !.settled = @ + 1]
             extracted == IF extractSessionRef(r.outputBuffer) # NoRef
                          THEN extractSessionRef(r.outputBuffer) ELSE r.sessionRef
         IN  IF error # "none"
             THEN [sendCall |-> [s1 EXCEPT !.pc = "rejected", !.outcome = error], runtime |-> r]
             ELSE [sendCall |-> [s1 EXCEPT !.pc = "resolved", !.outcome = "completed",
                                           !.text = Trim(Slice(r.outputBuffer, s.before)),
                                           !.sessionRef = extracted],
                   runtime |-> [r EXCEPT !.sessionRef = extracted]]

\* finish(error?): the first call clears both timers, removes the listeners and
\* settles the promise; later calls return at `if (done)`
finish(s, r, error) ==
    IF s.done THEN [sendCall |-> s, runtime |-> r]
    ELSE LET s1 == [s EXCEPT !.done = TRUE, !.idleTimer = Off, !.hardTimer = Off,
                            !.listeners = FALSE, !.settled = @ + 1]
             extracted == IF extractSessionRef(r.outputBuffer) # NoRef
                          THEN extractSessionRef(r.outputBuffer) ELSE r.sessionRef
         IN  IF error # "none"
             THEN [sendCall |-> [s1 EXCEPT !.pc = "rejected", !.outcome = error], runtime |-> r]
             ELSE [sendCall |-> [s1 EXCEPT !.pc = "resolved", !.outcome = "completed",
                                           !.text = Trim(Slice(r.outputBuffer, s.before)),
                                           !.sessionRef = extracted],
                   runtime |-> [r EXCEPT !.sessionRef = extracted]]

\* armIdle(): the idle timer is cleared and set again
armIdle(s) == [s EXCEPT !.idleTimer = IdleTicks]

\* runtime.outputBuffer += String(chunk)
Appended(r, chunk) ==
    IF Len(r.outputBuffer) < MaxBuf THEN [r EXCEPT !.outputBuffer = Append(@, chunk)]
    ELSE [r EXCEPT !.overflow = TRUE]

\* (variant) a chunk sets the hard timer again as well
onDataResetsHard(s, r, chunk) ==
    [sendCall |-> [armIdle(s) EXCEPT !.hadOutput = TRUE, !.lastEvent = "data",
                                     !.hardTimer = HardTicks,
                                     !.received = IF Len(r.outputBuffer) < MaxBuf
                                                  THEN Append(@, chunk) ELSE @],
     runtime |-> Appended(r, chunk)]

\* onData(chunk)
onData(s, r, chunk) ==
    [sendCall |-> [armIdle(s) EXCEPT !.hadOutput = TRUE, !.lastEvent = "data",
                                     !.received = IF Len(r.outputBuffer) < MaxBuf
                                                  THEN Append(@, chunk) ELSE @],
     runtime |-> Appended(r, chunk)]

\* (variant) the idle timer completes the send whether or not output arrived
onIdleAlwaysCompletes(s, r) == finish([s EXCEPT !.lastEvent = "idle"], r, "none")

\* the callback of the idle timer
onIdle(s, r) ==
    IF ~s.hadOutput THEN finish([s EXCEPT !.lastEvent = "idle"], r, "No output")
    ELSE finish([s EXCEPT !.lastEvent = "idle"], r, "none")

\* the callback of the hard timer
onHard(s, r) == finish([s EXCEPT !.lastEvent = "hard"], r, "timed out")

\* (variant) an exit completes the send with the output received so far
onExitCompletes(s, r) ==
    finish([s EXCEPT !.lastEvent = "exit"], r, IF s.hadOutput THEN "none" ELSE "exited unexpectedly")

\* onExit(code)
onExit(s, r) == finish([s EXCEPT !.lastEvent = "exit"], r, "exited unexpectedly")

\* no send or stop is waiting on the runtime
AdapterIdle == sendCall.pc # "waiting" /\ stopCall.pc # "waiting"

\* send(runtime, input, idleMs, timeoutMs) up to the write to stdin
SendCall ==
    /\ AdapterIdle
    /\ stopCall.pc = "none"
    /\ sendCall' = [NoSend EXCEPT !.pc = "waiting", !.before = Len(runtime.outputBuffer),
                                  !.listeners = TRUE, !.hardTimer = HardTicks,
                                  !.idleTimer = IdleTicks, !.refAtCall = runtime.sessionRef,
                                  !.lastEvent = "write"]
    /\ UNCHANGED <<runtime, stopCall>>
    /\ UNCHANGED <<startCall, managerVars, daemon>>

\* the process writes a chunk to stdout or stderr; onData runs when attached
Emit(chunk) ==
    /\ runtime.alive
    /\ sendCall.listeners
    /\ LET after == onData(sendCall, runtime, chunk)
       IN  sendCall' = after.sendCall /\ runtime' = after.runtime
    /\ UNCHANGED stopCall
    /\ UNCHANGED <<startCall, managerVars, daemon>>

\* the idle timer fires
IdleFire ==
    /\ sendCall.idleTimer = 0
    /\ LET after == onIdle([sendCall EXCEPT !.idleTimer = Off], runtime)
       IN  sendCall' = after.sendCall /\ runtime' = after.runtime
    /\ UNCHANGED stopCall
    /\ UNCHANGED <<startCall, managerVars, daemon>>

\* the hard timer fires
HardFire ==
    /\ sendCall.hardTimer = 0
    /\ LET after == onHard([sendCall EXCEPT !.hardTimer = Off], runtime)
       IN  sendCall' = after.sendCall /\ runtime' = after.runtime
    /\ UNCHANGED stopCall
    /\ UNCHANGED <<startCall, managerVars, daemon>>

\* the value stop returns after its wait
stopReturns(r) ==
    IF extractSessionRef(r.outputBuffer) # NoRef THEN extractSessionRef(r.outputBuffer)
    ELSE r.sessionRef

\* the promise stop awaits is resolved: stop returns, once
resolveStop(st, r) ==
    IF st.pc = "waiting" THEN [st EXCEPT !.pc = "returned", !.result = stopReturns(r)] ELSE st

\* proc.once("exit", ...) of stop: clearTimeout(timer); resolve()
onStopExit(st, r) == resolveStop([st EXCEPT !.termTimer = Off, !.exitListener = FALSE], r)

\* the child process exits: exitCode is set and the 'exit' listeners run
ProcessExit ==
    /\ runtime.alive
    /\ LET r == [runtime EXCEPT !.alive = FALSE]
           after == IF sendCall.listeners THEN onExit(sendCall, r)
                    ELSE [sendCall |-> sendCall, runtime |-> r]
       IN  /\ sendCall' = after.sendCall
           /\ runtime' = after.runtime
           /\ stopCall' = IF stopCall.exitListener THEN onStopExit(stopCall, r) ELSE stopCall
    /\ UNCHANGED <<startCall, managerVars, daemon>>

\* proc.kill(signal): the signal is sent, and killed set, while the process runs
Kill(st, r, signal) ==
    IF r.alive THEN [stopCall |-> [st EXCEPT !.signals = Append(@, signal)],
                     runtime |-> [r EXCEPT !.killed = TRUE]]
    ELSE [stopCall |-> st, runtime |-> r]

\* stop(runtime) up to its await; the closure of the settled send is unreachable
StopCall ==
    /\ AdapterIdle
    /\ stopCall' = IF runtime.killed \/ ~runtime.alive
                   THEN [stopCall EXCEPT !.pc = "returned", !.result = runtime.sessionRef,
                                         !.early = TRUE]
                   ELSE [NoStop EXCEPT !.pc = "waiting", !.signals = <<"/exit">>,
                                       !.termTimer = TermTicks, !.killTimer = KillTicks,
                                       !.exitListener = TRUE]
    /\ sendCall' = NoSend
    /\ UNCHANGED runtime
    /\ UNCHANGED <<startCall, managerVars, daemon>>

\* the 1500 ms timer of stop fires: proc.kill("SIGTERM")
TermFire ==
    /\ stopCall.termTimer = 0
    /\ LET after == Kill([stopCall EXCEPT !.termTimer = Off], runtime, "SIGTERM")
       IN  stopCall' = after.stopCall /\ runtime' = after.runtime
    /\ UNCHANGED sendCall
    /\ UNCHANGED <<startCall, managerVars, daemon>>

\* (variant) the 3500 ms timer sends SIGKILL and leaves the promise pending
onKillTimerNoResolve(st, r) == Kill([st EXCEPT !.killTimer = Off], r, "SIGKILL")

\* the callback of the 3500 ms timer: proc.kill("SIGKILL"); resolve()
onKillTimer(st, r) ==
    LET after == Kill([st EXCEPT !.killTimer = Off], r, "SIGKILL")
    IN  [stopCall |-> resolveStop(after.stopCall, r), runtime |-> after.runtime]

\* the 3500 ms timer of stop fires
KillFire ==
    /\ stopCall.killTimer = 0
    /\ LET after == onKillTimer(stopCall, runtime)
       IN  stopCall' = after.stopCall /\ runtime' = after.runtime
    /\ UNCHANGED sendCall
    /\ UNCHANGED <<startCall, managerVars, daemon>>

\* the timers of the send and of the stop
Timers == {sendCall.idleTimer, sendCall.hardTimer, stopCall.termTimer, stopCall.killTimer}

TickTimer(t) == IF t = Off THEN Off ELSE t - 1

\* one tick of time passes: no armed timer is due, every armed timer comes closer
Tick ==
    /\ Timers # {Off}
    /\ 0 \notin Timers
    /\ sendCall' = [sendCall EXCEPT !.idleTimer = TickTimer(@), !.hardTimer = TickTimer(@),
                                    !.elapsed = IF sendCall.pc = "waiting" /\ @ <= HardTicks
                                                THEN @ + 1 ELSE @]
    /\ stopCall' = [stopCall EXCEPT !.termTimer = TickTimer(@), !.killTimer = TickTimer(@),
                                    !.elapsed = IF stopCall.pc = "waiting" /\ @ <= KillTicks
                                                THEN @ + 1 ELSE @]
    /\ UNCHANGED runtime
    /\ UNCHANGED <<startCall, managerVars, daemon>>

\* ---- BaseCliAgentAdapter.start ----

\* the settle timeout of start (1200 ms) in ticks
SettleTicks == 2

\* start's local outputBuffer holds at most MaxStartup chunks when start returns
MaxStartup == 1

\* the exit code of a process a signal ended (code is null)
NoCode == 0 - 1

\* the codes the 'exit' event of the child process can carry
ExitCodes == {NoCode, 0, 1}

\* (variant) the resume arguments are passed in fresh mode too
buildStartArgsResumes(agent, sessionRef, fresh) ==
    IF sessionRef # NoRef
    THEN (IF agent = "codex" THEN <<"resume">> ELSE <<"--resume">>) \o sessionRef
    ELSE IF agent = "codex" THEN <<"resume", "--last">> ELSE <<"--continue">>

\* buildStartArgs(sessionRef, fresh) of CodexAdapter and of ClaudeAdapter
buildStartArgs(agent, sessionRef, fresh) ==
    IF fresh THEN <<>>
    ELSE IF sessionRef # NoRef
         THEN (IF agent = "codex" THEN <<"resume">> ELSE <<"--resume">>) \o sessionRef
         ELSE IF agent = "codex" THEN <<"resume", "--last">> ELSE <<"--continue">>

\* no start in progress; spawnEvent tells whether the platform's child process
\* announces a successful spawn with a 'spawn' event
NoStart ==
    [pc |-> "none", agent |-> "codex", sessionRef |-> NoRef, fresh |-> FALSE, args |-> <<>>,
     spawnEvent |-> TRUE, proc |-> "none", code |-> NoCode, outputBuffer |-> <<>>,
     timer |-> Off, onError |-> FALSE, onSpawn |-> FALSE, onExit |-> FALSE,
     first |-> "none", settles |-> 0]

\* resolve() of the promise start awaits: only the first settlement counts
resolveStart(c, signal) ==
    IF c.pc = "waiting"
    THEN [c EXCEPT !.pc = "resolved", !.first = signal, !.settles = @ + 1]
    ELSE c

\* reject(err) of the promise start awaits
rejectStart(c, signal) ==
    IF c.pc = "waiting"
    THEN [c EXCEPT !.pc = "rejected", !.first = signal, !.settles = @ + 1]
    ELSE c

\* proc.once("exit", (code) => ...) of start
onStartExit(c, code) ==
    IF (IF code = NoCode THEN 0 ELSE code) # 0
    THEN rejectStart([c EXCEPT !.timer = Off], "exit")
    ELSE resolveStart([c EXCEPT !.timer = Off], "exit")

\* start(options) up to the await of the settle promise
StartCall(agent, sessionRef, fresh) ==
    /\ startCall.pc = "none"
    /\ startCall' = [startCall EXCEPT !.pc = "waiting", !.agent = agent,
                                      !.sessionRef = sessionRef, !.fresh = fresh,
                                      !.args = buildStartArgs(agent, sessionRef, fresh),
                                      !.proc = "spawning", !.timer = SettleTicks,
                                      !.onError = TRUE, !.onSpawn = TRUE, !.onExit = TRUE]
    /\ UNCHANGED <<runtime, sendCall, stopCall>>
    /\ UNCHANGED <<managerVars, daemon>>

\* the process is running; where the platform has a 'spawn' event the listener runs
StartSpawned ==
    /\ startCall.proc = "spawning"
    /\ startCall' =
         IF startCall.spawnEvent /\ startCall.onSpawn
         THEN resolveStart([startCall EXCEPT !.proc = "running", !.onSpawn = FALSE,
                                             !.timer = Off], "spawn")
         ELSE [startCall EXCEPT !.proc = "running"]
    /\ UNCHANGED <<runtime, sendCall, stopCall>>
    /\ UNCHANGED <<managerVars, daemon>>

\* the process could not be spawned, or fails later: the 'error' listener runs once
StartError ==
    /\ startCall.proc \in {"spawning", "running"}
    /\ startCall.onError
    /\ startCall' = rejectStart([startCall EXCEPT
                                   !.proc = IF @ = "spawning" THEN "failed" ELSE @,
                                   !.onError = FALSE, !.timer = Off], "error")
    /\ UNCHANGED <<runtime, sendCall, stopCall>>
    /\ UNCHANGED <<managerVars, daemon>>

\* the process ends with the given code: the 'exit' listener runs once
StartExit(code) ==
    /\ startCall.proc = "running"
    /\ startCall.pc \in {"waiting", "resolved", "rejected"}
    /\ startCall' = onStartExit([startCall EXCEPT !.proc = "exited", !.code = code,
                                                  !.onExit = FALSE], code)
    /\ UNCHANGED <<runtime, sendCall, stopCall>>
    /\ UNCHANGED <<managerVars, daemon>>

\* the process writes a chunk before start has returned
StartEmit(chunk) ==
    /\ startCall.proc = "running"
    /\ startCall.pc = "waiting"
    /\ Len(startCall.outputBuffer) < MaxStartup
    /\ startCall' = [startCall EXCEPT !.outputBuffer = Append(@, chunk)]
    /\ UNCHANGED <<runtime, sendCall, stopCall>>
    /\ UNCHANGED <<managerVars, daemon>>

\* the settle timer is due
SettleFire ==
    /\ startCall.timer = 0
    /\ startCall' = resolveStart([startCall EXCEPT !.timer = Off], "timeout")
    /\ UNCHANGED <<runtime, sendCall, stopCall>>
    /\ UNCHANGED <<managerVars, daemon>>

\* one tick of time passes while start waits
StartTick ==
    /\ startCall.timer > 0
    /\ startCall' = [startCall EXCEPT !.timer = @ - 1]
    /\ UNCHANGED <<runtime, sendCall, stopCall>>
    /\ UNCHANGED <<managerVars, daemon>>

\* the await is over and start returns the RunningAgent
StartReturn ==
    /\ startCall.pc = "resolved"
    /\ startCall' = [startCall EXCEPT !.pc = "returned"]
    /\ runtime' = [alive |-> startCall.proc = "running", killed |-> FALSE,
                   sessionRef |-> startCall.sessionRef,
                   outputBuffer |-> startCall.outputBuffer, overflow |-> FALSE]
    /\ UNCHANGED <<sendCall, stopCall>>
    /\ UNCHANGED <<managerVars, daemon>>

----------------------------------------------------------------------------
(* The daemon: the message loop of main and processInboundEvent.  Texts are  *)
(* sequences of tokens; an inbound event carries text only.                  *)

\* signal.receive returns at most MaxBatch events
MaxBatch == 2

\* the composed texts have at most MaxText tokens
MaxText == 3

\* cfg.routing.responseChunkSize
ChunkSize == 2

\* the daemon handles at most MaxSignals termination signals
MaxSignals == 1

Slash == "/"

Letter == "x"

\* the tokens of a text
Tokens == {Space, Slash, "claude", "codex", Letter}

RECURSIVE TextsUpTo(_)
TextsUpTo(n) ==
    IF n = 0 THEN {<<>>}
    ELSE LET shorter == TextsUpTo(n - 1)
         IN  shorter \cup {Append(t, c) : t \in {u \in shorter : Len(u) = n - 1}, c \in Tokens}

\* every text of at most MaxText tokens
Texts == TextsUpTo(MaxText)

NoRoute == [type |-> "none", agent |-> Null, payload |-> <<>>]

\* (variant) the payload is the trimmed text
routeTrimmedPayload(rawText) ==
    LET text == Trim(rawText)
    IN  IF text = <<Slash, "claude">> THEN [type |-> "switch_agent", agent |-> "claude", payload |-> <<>>]
        ELSE IF text = <<Slash, "codex">> THEN [type |-> "switch_agent", agent |-> "codex", payload |-> <<>>]
        ELSE IF text # <<>> /\ text[1] = Slash
             THEN [type |-> "passthrough", agent |-> Null, payload |-> text]
             ELSE [type |-> "message", agent |-> Null, payload |-> text]

\* routeTextInput(rawText)
routeTextInput(rawText) ==
    LET text == Trim(rawText)
    IN  IF text = <<Slash, "claude">> THEN [type |-> "switch_agent", agent |-> "claude", payload |-> <<>>]
        ELSE IF text = <<Slash, "codex">> THEN [type |-> "switch_agent", agent |-> "codex", payload |-> <<>>]
        ELSE IF text # <<>> /\ text[1] = Slash
             THEN [type |-> "passthrough", agent |-> Null, payload |-> rawText]
             ELSE [type |-> "message", agent |-> Null, payload |-> rawText]

\* the while loop of chunkText
RECURSIVE chunksFrom(_, _, _)
chunksFrom(text, size, index) ==
    IF index < Len(text)
    THEN LET end == IF index + size < Len(text) THEN index + size ELSE Len(text)
         IN  <<SubSeq(text, index + 1, end)>> \o chunksFrom(text, size, end)
    ELSE <<>>

\* chunkText(text, size)
chunkText(text, size) ==
    IF Len(text) <= size THEN <<text>> ELSE chunksFrom(text, size, 0)

\* text.slice(start, end): a negative position counts from the end of the text
slice(text, start, end) ==
    LET from == IF start < 0 THEN (IF Len(text) + start < 0 THEN 0 ELSE Len(text) + start)
                ELSE IF start > Len(text) THEN Len(text) ELSE start
        to == IF end < 0 THEN (IF Len(text) + end < 0 THEN 0 ELSE Len(text) + end)
              ELSE IF end > Len(text) THEN Len(text) ELSE end
    IN  IF from < to THEN SubSeq(text, from + 1, to) ELSE <<>>

\* a call of chunkText followed statement by statement: its arguments, the
\* locals index and chunks, and the array it returned
NoChunk == [pc |-> "none", text |-> <<>>, size |-> 0, index |-> 0, chunks |-> <<>>]

\* the loop is followed for MaxChunks iterations, more than a text of MaxText
\* tokens has tokens
MaxChunks == MaxText + 1

\* the sizes chunkText is called with
ChunkSizes == (0 - 1)..(MaxText + 1)

\* the Signal accounts that write to the daemon, and the user of each
Phones == {"+1", "+2"}

UserOfPhone(phone) == IF phone = "+1" THEN "u1" ELSE "u2"

\* the status of a phone's row in the users table; "none": there is no row
UserStatus == {"none", "pending", "active", "revoked"}

\* the texts of the inbound events
EventTexts == {<<Slash, "claude">>, <<Letter>>, <<Space>>}

\* an inbound event; echo: a sync message sent by a linked device other than the first
InboundEvents ==
    [source : Phones, text : EventTexts, echo : {FALSE}]
        \cup {[source |-> "+1", text |-> <<Letter>>, echo |-> TRUE]}

\* what signal.receive can return
Batches == UNION {[1..n -> InboundEvents] : n \in 0..MaxBatch}

\* what sendToActive resolves with
OutputTexts == {<<>>, <<Letter, Letter, Letter>>}

NoTextResponse == <<"(No textual response from agent.)">>

FailedResponse == <<"Agent execution failed: ", "Error">>

\* the daemon before main has run
NoDaemon ==
    [pc |-> "off", running |-> FALSE, batch |-> <<>>, route |-> NoRoute,
     users |-> [p \in Phones |-> "none"], calls |-> <<>>, response |-> <<>>,
     out |-> <<>>, signals |-> 0, chunk |-> NoChunk]

\* a call of the manager in flight
ManagerCall(kind, userId) == [kind |-> kind, userId |-> userId]

\* the calls in flight once the awaited switchAgent or sendToActive has settled
Settled(calls) == SelectSeq(calls, LAMBDA c : c.kind = "shutdown")

\* processInboundEvent returns at once for a sync echo
RECURSIVE SkipEchoes(_)
SkipEchoes(batch) ==
    IF batch # <<>> /\ batch[1].echo THEN SkipEchoes(Tail(batch)) ELSE batch

\* the for loop over the events: processInboundEvent up to getUserByPhone for
\* the first event left, else runAttachmentCleanup
NextEvent(d, batch) ==
    LET b == SkipEchoes(batch)
    IN  IF b = <<>>
        THEN [d EXCEPT !.pc = "cleanup", !.batch = <<>>, !.route = NoRoute, !.response = <<>>]
        ELSE [d EXCEPT !.pc = "getUser", !.batch = b, !.route = NoRoute, !.response = <<>>]

\* processInboundEvent has returned for the first event of the batch
EventDone(d) == NextEvent(d, Tail(d.batch))

\* while (running)
LoopAgain(d) ==
    IF d.running THEN [d EXCEPT !.pc = "receive"] ELSE [d EXCEPT !.pc = "stopped"]

\* (variant) the loop receives again while a manager call is awaited
LoopReceivesEarly(d) == d.pc \in {"receive", "switch", "send"}

\* the loop is suspended at `await signal.receive`
LoopReceives(d) == d.pc = "receive"

\* signal.receive resolved with a batch
Receive(batch) ==
    /\ LoopReceives(daemon)
    /\ daemon' = NextEvent(daemon, batch)
    /\ UNCHANGED <<managerVars, adapterVars>>

\* db.getUserByPhone resolved
GotUser ==
    /\ daemon.pc = "getUser"
    /\ LET status == daemon.users[daemon.batch[1].source]
       IN  daemon' = [daemon EXCEPT !.pc = IF status \in {"none", "revoked"} THEN "deny"
                                           ELSE IF status = "pending" THEN "activate"
                                           ELSE "insert"]
    /\ UNCHANGED <<managerVars, adapterVars>>

\* signal.sendMessage of the whitelist or the revoked notice resolved; return
Denied ==
    /\ daemon.pc = "deny"
    /\ daemon' = EventDone(daemon)
    /\ UNCHANGED <<managerVars, adapterVars>>

\* db.setUserStatus(user.id, "active") resolved
Activated ==
    /\ daemon.pc = "activate"
    /\ daemon' = [daemon EXCEPT !.pc = "insert", !.users[daemon.batch[1].source] = "active"]
    /\ UNCHANGED <<managerVars, adapterVars>>

\* db.insertMessage resolved: the text is routed, and a manager call is made
\* unless the provider is disabled or the prompt is empty
Inserted ==
    /\ daemon.pc = "insert"
    /\ LET event == daemon.batch[1]
           userId == UserOfPhone(event.source)
           route == routeTextInput(event.text)
           d == [daemon EXCEPT !.route = route]
       IN  daemon' =
             IF route.type = "switch_agent"
             THEN IF route.agent \notin adapters
                  THEN [d EXCEPT !.pc = "reply"]
                  ELSE [d EXCEPT !.pc = "switch",
                                 !.calls = Append(@, ManagerCall("switch", userId))]
             ELSE IF Trim(route.payload) = <<>>
                  THEN EventDone(d)
                  ELSE [d EXCEPT !.pc = "send",
                                 !.calls = Append(@, ManagerCall("send", userId))]
    /\ UNCHANGED <<managerVars, adapterVars>>

\* manager.switchAgent resolved
SwitchResolved ==
    /\ daemon.pc = "switch"
    /\ daemon' = [daemon EXCEPT !.pc = "reply", !.calls = Settled(@)]
    /\ UNCHANGED <<managerVars, adapterVars>>

\* manager.switchAgent rejected: the loop's catch block logs and sleeps
SwitchRejected ==
    /\ daemon.pc = "switch"
    /\ daemon' = [daemon EXCEPT !.pc = "sleep", !.calls = Settled(@), !.batch = <<>>,
                                !.route = NoRoute]
    /\ UNCHANGED <<managerVars, adapterVars>>

\* signal.sendMessage of the switch notice or the disabled notice resolved; return
Replied ==
    /\ daemon.pc = "reply"
    /\ daemon' = EventDone(daemon)
    /\ UNCHANGED <<managerVars, adapterVars>>

\* manager.sendToActive resolved with the text
SendResolved(text) ==
    /\ daemon.pc = "send"
    /\ daemon' = [daemon EXCEPT !.pc = "store", !.calls = Settled(@),
                                !.response = IF text # <<>> THEN text ELSE NoTextResponse]
    /\ UNCHANGED <<managerVars, adapterVars>>

\* manager.sendToActive rejected
SendRejected ==
    /\ daemon.pc = "send"
    /\ daemon' = [daemon EXCEPT !.pc = "store", !.calls = Settled(@),
                                !.response = FailedResponse]
    /\ UNCHANGED <<managerVars, adapterVars>>

\* db.insertMessage of the response resolved; the first chunk is sent
Stored ==
    /\ daemon.pc = "store"
    /\ daemon' = [daemon EXCEPT !.pc = "respond", !.out = chunkText(daemon.response, ChunkSize)]
    /\ UNCHANGED <<managerVars, adapterVars>>

\* signal.sendMessage of a chunk resolved; the next chunk, or return
ChunkSent ==
    /\ daemon.pc = "respond"
    /\ daemon' = IF Len(daemon.out) > 1
                 THEN [daemon EXCEPT !.out = Tail(@)]
                 ELSE EventDone([daemon EXCEPT !.out = <<>>])
    /\ UNCHANGED <<managerVars, adapterVars>>

\* runAttachmentCleanup resolved
CleanupDone ==
    /\ daemon.pc = "cleanup"
    /\ daemon' = LoopAgain(daemon)
    /\ UNCHANGED <<managerVars, adapterVars>>

\* the pause of the catch block is over
SleepDone ==
    /\ daemon.pc = "sleep"
    /\ daemon' = LoopAgain(daemon)
    /\ UNCHANGED <<managerVars, adapterVars>>

\* SIGINT or SIGTERM: stop() up to `await manager.shutdownAll()`
TermSignal ==
    /\ daemon.pc \notin {"off", "exited"}
    /\ daemon.signals < MaxSignals
    /\ daemon' = [daemon EXCEPT !.running = FALSE, !.signals = @ + 1,
                                !.calls = Append(@, ManagerCall("shutdown", Null))]
    /\ UNCHANGED <<managerVars, adapterVars>>

\* shutdownAll resolved; db.close(); process.exit(0)
ShutdownDone ==
    /\ daemon.pc \notin {"off", "exited"}
    /\ \E i \in 1..Len(daemon.calls) : daemon.calls[i].kind = "shutdown"
    /\ daemon' = [daemon EXCEPT !.pc = "exited", !.calls = <<>>, !.batch = <<>>,
                                !.route = NoRoute, !.response = <<>>, !.out = <<>>]
    /\ UNCHANGED <<managerVars, adapterVars>>

\* chunkText(text, size) up to the while loop: `if (text.length <= size) return [text]`
ChunkTextCall ==
    /\ daemon.chunk.pc = "called"
    /\ LET c == daemon.chunk
       IN  daemon' = [daemon EXCEPT !.chunk =
                        IF Len(c.text) <= c.size
                        THEN [c EXCEPT !.pc = "returned", !.chunks = <<c.text>>]
                        ELSE [c EXCEPT !.pc = "while", !.index = 0, !.chunks = <<>>]]
    /\ UNCHANGED <<managerVars, adapterVars>>

\* one test of `while (index < text.length)`: an iteration of the body, or the
\* return of chunks
ChunkTextLoop ==
    /\ daemon.chunk.pc = "while"
    /\ Len(daemon.chunk.chunks) < MaxChunks
    /\ LET c == daemon.chunk
           end == IF c.index + c.size < Len(c.text) THEN c.index + c.size ELSE Len(c.text)
       IN  daemon' = [daemon EXCEPT !.chunk =
                        IF c.index < Len(c.text)
                        THEN [c EXCEPT !.chunks = Append(c.chunks, slice(c.text, c.index, end)),
                                       !.index = end]
                        ELSE [c EXCEPT !.pc = "returned"]]
    /\ UNCHANGED <<managerVars, adapterVars>>

\* `cognal user revoke --phone <phone>`, run by the operator while the daemon
\* serves: getUserByPhone, 'Unknown user' when there is no row, else
\* setUserStatus(user.id, "revoked") on the database the daemon reads
userRevokeAction(phone) ==
    /\ daemon.pc \notin {"off", "exited"}
    /\ daemon.users[phone] \notin {"none", "revoked"}
    /\ daemon' = [daemon EXCEPT !.users[phone] = "revoked"]
    /\ UNCHANGED <<managerVars, adapterVars>>

\* applying routeTextInput to the text of the event at hand
RouteText ==
    /\ daemon.pc = "route"
    /\ daemon' = [daemon EXCEPT !.pc = "routed", !.route = routeTextInput(daemon.batch[1].text)]
    /\ UNCHANGED <<managerVars, adapterVars>>

\* the transcripts adapter.start can hand over in runtime.outputBuffer
StartupTranscripts == {<<>>} \cup {<<c>> : c \in Chunks}

\* the RunningAgent adapter.start returned: the process runs, or has exited with
\* code 0 already
StartedRuntimes ==
    [alive : BOOLEAN, killed : {FALSE}, sessionRef : {NoRef, <<StaleRef>>},
     outputBuffer : StartupTranscripts, overflow : {FALSE}]

\* no runtime under the adapter's engine
NoRuntime ==
    [alive |-> FALSE, killed |-> FALSE, sessionRef |-> NoRef, outputBuffer |-> <<>>,
     overflow |-> FALSE]

InitAdapter ==
    /\ runtime \in StartedRuntimes
    /\ sendCall = NoSend
    /\ stopCall = NoStop
    /\ startCall = NoStart
    /\ daemon = NoDaemon
    /\ adapters = AgentType
    /\ options = [failoverEnabled |-> FALSE, defaultAgent |-> "codex"]
    /\ binding = [u \in Users |-> NoRow]
    /\ runtimePid = [u \in Users |-> [a \in AgentType |-> 0]]
    /\ runtimes = <<>>
    /\ procs = <<>>
    /\ op = IdleOp
    /\ sd = IdleSd

\* the engine's steps, the process writing chunks drawn from the given set
AdapterSteps(chunks) ==
    \/ SendCall
    \/ \E chunk \in chunks : Emit(chunk)
    \/ IdleFire
    \/ HardFire
    \/ ProcessExit
    \/ StopCall
    \/ TermFire
    \/ KillFire
    \/ Tick

NextAdapter == AdapterSteps(Chunks)

SpecAdapter == InitAdapter /\ [][NextAdapter]_vars

\* the event loop of the daemon: while a timer is armed time passes, and a due
\* timer fires before more time passes
Clock == Tick \/ IdleFire \/ HardFire \/ TermFire \/ KillFire

\* the output of a process as far as the timers are concerned: chunks of one kind
Chatter == {Word}

NextAdapterFair == AdapterSteps(Chatter)

\* the same engine under a fair clock
SpecAdapterFair == InitAdapter /\ [][NextAdapterFair]_vars /\ WF_vars(Clock)

\* a start on either kind of platform, nothing else on the adapter
InitStart ==
    /\ startCall \in {[NoStart EXCEPT !.spawnEvent = b] : b \in BOOLEAN}
    /\ runtime = NoRuntime
    /\ sendCall = NoSend
    /\ stopCall = NoStop
    /\ daemon = NoDaemon
    /\ adapters = AgentType
    /\ options = [failoverEnabled |-> FALSE, defaultAgent |-> "codex"]
    /\ binding = [u \in Users |-> NoRow]
    /\ runtimePid = [u \in Users |-> [a \in AgentType |-> 0]]
    /\ runtimes = <<>>
    /\ procs = <<>>
    /\ op = IdleOp
    /\ sd = IdleSd

NextStart ==
    \/ \E agent \in AgentType, sessionRef \in {NoRef, <<StaleRef>>}, fresh \in BOOLEAN :
          StartCall(agent, sessionRef, fresh)
    \/ StartSpawned
    \/ StartError
    \/ \E code \in ExitCodes : StartExit(code)
    \/ \E chunk \in Chunks : StartEmit(chunk)
    \/ SettleFire
    \/ StartTick
    \/ StartReturn

SpecStart == InitStart /\ [][NextStart]_vars

\* the manager and the adapter's engine at rest
InitRest ==
    /\ options = [failoverEnabled |-> FALSE, defaultAgent |-> "codex"]
    /\ binding = [u \in Users |-> NoRow]
    /\ runtimePid = [u \in Users |-> [a \in AgentType |-> 0]]
    /\ runtimes = <<>>
    /\ procs = <<>>
    /\ op = IdleOp
    /\ sd = IdleSd
    /\ runtime = NoRuntime
    /\ sendCall = NoSend
    /\ stopCall = NoStop
    /\ startCall = NoStart

\* the daemon entering its loop, on any users table
InitDaemon ==
    /\ adapters \in {AgentType, {"codex"}}
    /\ daemon \in {[NoDaemon EXCEPT !.pc = "receive", !.running = TRUE, !.users = u] :
                     u \in [Phones -> UserStatus]}
    /\ InitRest

NextDaemon ==
    \/ \E batch \in Batches : Receive(batch)
    \/ GotUser
    \/ Denied
    \/ Activated
    \/ Inserted
    \/ SwitchResolved
    \/ SwitchRejected
    \/ Replied
    \/ \E text \in OutputTexts : SendResolved(text)
    \/ SendRejected
    \/ Stored
    \/ ChunkSent
    \/ CleanupDone
    \/ SleepDone
    \/ TermSignal
    \/ ShutdownDone

SpecDaemon == InitDaemon /\ [][NextDaemon]_vars

\* the daemon and the operator's command line on the same users table
NextWhitelist == NextDaemon \/ \E phone \in Phones : userRevokeAction(phone)

SpecWhitelist == InitDaemon /\ [][NextWhitelist]_vars

\* routeTextInput applied to any text
InitRouter ==
    /\ adapters = AgentType
    /\ daemon \in {[NoDaemon EXCEPT !.pc = "route",
                                    !.batch = <<[source |-> "+1", text |-> t, echo |-> FALSE]>>] :
                     t \in Texts}
    /\ InitRest

SpecRouter == InitRouter /\ [][RouteText]_vars

\* chunkText called with any text and any size
InitChunk ==
    /\ adapters = AgentType
    /\ daemon \in {[NoDaemon EXCEPT !.chunk = [NoChunk EXCEPT !.pc = "called", !.text = t,
                                                              !.size = n]] :
                     t \in Texts, n \in ChunkSizes}
    /\ InitRest

NextChunk == ChunkTextCall \/ ChunkTextLoop

SpecChunk == InitChunk /\ [][NextChunk]_vars

----------------------------------------------------------------------------
(* The manager as the daemon drives it, one call at a time *)

\* rows an earlier run of the daemon can have left in the store
PersistedRows(userId) ==
    {NoRow} \cup {[userId |-> userId, activeAgent |-> a, claudeSessionRef |-> r, codexSessionRef |-> r] :
                    a \in AgentType, r \in {Null, StaleRef}}

Init ==
    /\ adapters \in SUBSET AgentType
    /\ options \in [failoverEnabled : BOOLEAN, defaultAgent : {"codex"}]
    /\ binding \in {b \in [Users -> UNION {PersistedRows(u) : u \in Users}] :
                      b["u1"] \in PersistedRows("u1") /\ b["u2"] = NoRow}
    /\ runtimePid = [u \in Users |-> [a \in AgentType |-> 0]]
    /\ runtimes = <<>>
    /\ procs = <<>>
    /\ op = IdleOp
    /\ sd = IdleSd
    /\ runtime = NoRuntime
    /\ sendCall = NoSend
    /\ stopCall = NoStop
    /\ startCall = NoStart
    /\ daemon = NoDaemon

\* the calls the daemon's message loop makes for the given users, one at a time
Calls(users) ==
    \/ \E u \in users, t \in AgentType : SwitchBegin(u, t)
    \/ \E u \in users, input \in Inputs : SendBegin(u, input)
    \/ ShutdownBegin

\* the resolution of an await of the call in flight, or a process exit
Steps ==
    \/ SwitchGotBinding
    \/ SwitchSetActive
    \/ SwitchGotBinding2
    \/ StopResolved
    \/ StopClearedPid
    \/ StopUpdatedRef
    \/ StartResumeOk
    \/ StartResumeFailed
    \/ StartFreshOk
    \/ StartFreshFailed
    \/ StartSetPid
    \/ SendGotBinding
    \/ SendDemoted
    \/ AdapterSendOk
    \/ AdapterSendFailed
    \/ SendUpdatedRef
    \/ SendClearedPid
    \/ FailoverSetActive
    \/ FailoverGotBinding
    \/ ShutdownStopResolved
    \/ ShutdownClearedPid
    \/ ShutdownUpdatedRef
    \/ ShutdownClearedPid2
    \/ ProcExit

\* the user whose messages the daemon processes in Spec
Callers == {"u1"}

Next == Calls(Callers) \/ Steps

Spec == Init /\ [][Next]_vars

\* the same manager on a store whose setRuntimePid can reject
NextStoreFails == Next \/ StartSetPidFailed

SpecStoreFails == Init /\ [][NextStoreFails]_vars

\* the same manager serving every user
NextUsers == Calls(Users) \/ Steps

SpecUsers == Init /\ [][NextUsers]_vars

\* the same manager serving u1 and a second user who only sends messages
NextSecondUser ==
    \/ Calls(Callers)
    \/ \E input \in Inputs : SendBegin("u2", input)
    \/ Steps

SpecSecondUser == Init /\ [][NextSecondUser]_vars

\* the manager of Spec with a signal handler that calls shutdownAll at any time
NextTeardown == Next \/ ShutdownDuringCall

SpecTeardown == Init /\ [][NextTeardown]_vars

----------------------------------------------------------------------------
(* Observations used by the properties *)

Events(log, calls) == {i \in 1..Len(log) : log[i].call \in calls}

EventsOf(log, calls, agent) == {i \in Events(log, calls) : log[i].agent = agent}

InMap(pid) == \E i \in 1..Len(runtimes) : runtimes[i] = pid

\* the live processes adapter.start returned for a user
LiveProcs(userId) == {pid \in 1..Len(procs) : procs[pid].userId = userId /\ procs[pid].alive}

\* a sendToActive whose first send failed has ended
SendFailedDone == op.pc = "done" /\ op.kind = "send" /\ op.err # Null

\* a switchAgent that found another runtime installed has ended
SwitchedDone == op.pc = "done" /\ op.kind = "switch" /\ Events(op.log, {"stop"}) # {}

----------------------------------------------------------------------------
(* C1: every user has at most one RunningAgent at every instant, and a new *)
(* runtime is installed only after the prior one was stopped and removed:  *)
(* a user never has two live processes, and while a runtime is installed   *)
(* for a user it is that user's only live process.                         *)
C1_SingleRuntimePerUser ==
    \A u \in Users :
        /\ Cardinality(LiveProcs(u)) <= 1
        /\ RuntimeOf(runtimes, u) # 0 => LiveProcs(u) \subseteq {RuntimeOf(runtimes, u)}

(* C2: a runtime the manager dropped from its map has a terminated process: *)
(* every live process started by the manager is in the runtime map, or is   *)
(* the one startForBinding is about to hand back for installation.          *)
C2_NoLiveProcessOutsideMap ==
    \A pid \in 1..Len(procs) :
        procs[pid].alive => InMap(pid) \/ (op.pc = "start_setPid" /\ op.runtime = pid)

(* C3 as stated: whenever the first send fails and failover is enabled and  *)
(* the alternate has an adapter, sendToActive returns the alternate's       *)
(* response behind the marker, the binding's active provider is the         *)
(* alternate and the user's runtime is the alternate's.                     *)
C3_FailoverAlwaysReturns ==
    (SendFailedDone /\ options.failoverEnabled /\ otherAgent(op.errAgent) \in adapters) =>
        LET alt == otherAgent(op.errAgent)
            rt == RuntimeOf(runtimes, op.userId)
        IN  /\ op.result.status = "ok"
            /\ op.result.text = <<"[Failover -> ", alt, "]", "\n\n">> \o op.text
            /\ binding[op.userId].activeAgent = alt
            /\ rt # 0 /\ procs[rt].agent = alt

(* C3 (amended): when the first send fails, failover is enabled and the     *)
(* alternate has an adapter, sendToActive persists the alternate as active  *)
(* provider; and when the alternate's runtime is obtained and its send      *)
(* succeeds, the original input was resent to the alternate behind the      *)
(* continuity preamble, the text returned is the alternate's response       *)
(* behind "[Failover -> <alternate>]", and the user's runtime is the        *)
(* alternate's.                                                             *)
C3_Failover ==
    (SendFailedDone /\ options.failoverEnabled /\ otherAgent(op.errAgent) \in adapters) =>
        LET alt == otherAgent(op.errAgent)
            rt == RuntimeOf(runtimes, op.userId)
            persisted == EventsOf(op.log, {"setActiveAgent"}, alt)
            resent == {i \in EventsOf(op.log, {"send"}, alt) :
                         op.log[i].input =
                           <<"[Automatic failover from previous agent due to runtime error.]", "\n\n",
                             "Continue from this latest user request:", "\n\n">> \o op.input}
        IN  /\ persisted # {}
            /\ binding[op.userId].activeAgent = alt
            /\ op.result.status = "ok" =>
                 /\ \E i \in persisted, j \in resent : i < j
                 /\ Cardinality(Events(op.log, {"send"})) = 2
                 /\ op.text \in ResponseTexts
                 /\ op.result.text = <<"[Failover -> ", alt, "]", "\n\n">> \o op.text
                 /\ rt # 0 /\ procs[rt].agent = alt
                 /\ Len(runtimes) = 1

\* a failover that returned the alternate's response
C3_Witness == SendFailedDone /\ op.result.status = "ok" /\ options.failoverEnabled

(* C4: when the first send fails and failover is disabled or the alternate  *)
(* has no adapter, sendToActive rejects with that send's error, the         *)
(* recorded pid of the failed provider is cleared with the error, the       *)
(* runtime is removed from the map, the binding's active provider is        *)
(* unchanged and the alternate provider is neither started nor sent to.     *)
C4_NoFailover ==
    (SendFailedDone /\ (~options.failoverEnabled \/ otherAgent(op.errAgent) \notin adapters)) =>
        /\ op.result.status = "rejected"
        /\ op.result.err = op.err /\ op.result.errAgent = op.errAgent
        /\ \E i \in EventsOf(op.log, {"send:failed"}, op.errAgent) : op.log[i].err = op.err
        /\ \E i \in EventsOf(op.log, {"clearRuntimePid"}, op.errAgent) : op.log[i].err = op.err
        /\ runtimePid[op.userId][op.errAgent] = 0
        /\ RuntimeOf(runtimes, op.userId) = 0
        /\ binding[op.userId].activeAgent = op.activeAgent
        /\ op.activeAgent = op.errAgent
        /\ \A i \in Events(op.log, {"setActiveAgent"}), j \in Events(op.log, {"send:failed"}) : i < j
        /\ EventsOf(op.log, {"start", "send"}, otherAgent(op.errAgent)) = {}

\* a send failed with both adapters configured and failover disabled
C4_Witness == SendFailedDone /\ ~options.failoverEnabled /\ adapters = AgentType

(* C5 as stated: a switchAgent(u, B) that found runtime A installed stops A *)
(* once, leaves the ref that stop returned persisted under A, removes A,    *)
(* persists B as active, starts B exactly once and installs it; the stop    *)
(* completes before the start begins.                                       *)
C5_SwitchStartsOnce ==
    SwitchedDone =>
        LET stop == CHOOSE i \in Events(op.log, {"stop"}) : TRUE
            A == op.log[stop].agent
            rt == RuntimeOf(runtimes, op.userId)
        IN  /\ Cardinality(Events(op.log, {"stop"})) = 1
            /\ SessionRefOf(binding[op.userId], A) = op.stoppedRef
            /\ ~InMap(op.log[stop].pid)
            /\ binding[op.userId].activeAgent = op.target
            /\ Cardinality(Events(op.log, {"start"})) = 1
            /\ rt # 0 /\ procs[rt].agent = op.target
            /\ \A i \in Events(op.log, {"stop:resolved"}), j \in Events(op.log, {"start"}) : i < j

(* C5 (amended): a switchAgent(u, B) that found runtime A installed stops A *)
(* exactly once, persists the ref returned by that stop under A when it is  *)
(* not null (and writes no ref otherwise), removes A from the map, persists *)
(* activeProvider = B, then starts B once in resume mode and once more in   *)
(* fresh mode only if the resume start failed; B is installed when a start  *)
(* succeeded and the call rejects with no runtime installed otherwise; the  *)
(* stop of A completes before the first start of B begins.                  *)
C5_Switch ==
    SwitchedDone =>
        LET log == op.log
            stop == CHOOSE i \in Events(log, {"stop"}) : TRUE
            A == log[stop].agent
            rt == RuntimeOf(runtimes, op.userId)
            starts == Events(log, {"start"})
            resumes == {i \in starts : ~log[i].fresh}
            freshes == {i \in starts : log[i].fresh}
            refs == Events(log, {"updateSessionRef"})
        IN  /\ Cardinality(Events(log, {"stop"})) = 1
            /\ Cardinality(Events(log, {"stop:resolved"})) = 1
            /\ A # op.target
            /\ IF op.stoppedRef # Null
               THEN /\ Cardinality(refs) = 1
                    /\ \A i \in refs : log[i].agent = A /\ log[i].ref = op.stoppedRef
                    /\ SessionRefOf(binding[op.userId], A) = op.stoppedRef
               ELSE refs = {}
            /\ ~InMap(log[stop].pid)
            /\ Cardinality(EventsOf(log, {"setActiveAgent"}, op.target)) = 1
            /\ Cardinality(Events(log, {"setActiveAgent"})) = 1
            /\ binding[op.userId].activeAgent = op.target
            /\ \A i \in starts : log[i].agent = op.target
            /\ Cardinality(resumes) = 1
            /\ Cardinality(freshes) <= 1
            /\ \A j \in freshes : \E i \in resumes, k \in Events(log, {"start:failed"}) : i < k /\ k < j
            /\ \A i \in Events(log, {"stop:resolved"}), j \in starts : i < j
            /\ IF op.result.status = "ok"
               THEN /\ Cardinality(Events(log, {"start:ok"})) = 1
                    /\ rt # 0 /\ procs[rt].agent = op.target /\ rt = op.runtime
               ELSE /\ Events(log, {"start:ok"}) = {}
                    /\ op.result.err = "startup"
                    /\ rt = 0

\* a switch from an installed runtime to the other provider that returned
C5_Witness == SwitchedDone /\ op.result.status = "ok" /\ op.stoppedRef # Null

(* C6 as stated: a switchAgent(u, X) that repeats the call made just before *)
(* it performs no adapter start or stop and changes neither the binding nor *)
(* the runtime map.                                                         *)
C6_RepeatIsNoop ==
    [][(op'.kind = "switch" /\ op'.repeatOf # "none") =>
         /\ Events(op'.log, {"start", "stop"}) = {}
         /\ binding' = binding
         /\ runtimes' = runtimes]_vars

(* C6 (amended): a switchAgent(u, X) that repeats the call made just before *)
(* it, that call not having failed to start X's runtime (it returned, or it *)
(* was rejected because X is disabled), performs no adapter start or stop   *)
(* and changes neither the binding nor the runtime map.                     *)
C6_Idempotent ==
    [][(op'.kind = "switch" /\ op'.repeatOf \in {"ok", "disabled"}) =>
         /\ Events(op'.log, {"start", "stop"}) = {}
         /\ binding' = binding
         /\ runtimes' = runtimes]_vars

\* the second of two switchAgent(u, X) has returned, X's runtime installed
C6_Witness ==
    /\ op.pc = "done" /\ op.kind = "switch" /\ op.repeatOf = "ok" /\ op.result.status = "ok"
    /\ RuntimeOf(runtimes, op.userId) # 0

(* C7: switchAgent(u, target) returns without doing anything only when      *)
(* target's runtime is installed for u and its process is alive.            *)
C7_NoopOnlyWhenAlive ==
    [][(op.pc = "sw_getBinding" /\ op'.pc = "done" /\ op'.result.status = "ok") =>
         LET current == RuntimeOf(runtimes, op.userId)
         IN  current # 0 /\ procs[current].agent = op.target /\ procs[current].alive]_vars

(* C8: switchAgent to a provider with no adapter rejects with the           *)
(* 'disabled' error having made no persistence call and no adapter call,    *)
(* the binding, the recorded pids and the runtime map unchanged.            *)
C8_SwitchDisabled ==
    [][(op'.kind = "switch" /\ op'.target \notin adapters) =>
         /\ op'.pc = "done"
         /\ op'.result.status = "rejected" /\ op'.result.err = "disabled"
         /\ op'.result.errAgent = op'.target
         /\ op'.log = <<>>
         /\ binding' = binding /\ runtimePid' = runtimePid /\ runtimes' = runtimes]_vars

\* a switchAgent to a disabled provider was rejected while a runtime is installed
C8_Witness ==
    /\ op.pc = "done" /\ op.kind = "switch" /\ op.target \notin adapters
    /\ op.result.err = "disabled" /\ runtimes # <<>>

C10_DisabledNotRetried ==
    (op.pc = "done" /\ op.result.err = "disabled") =>
        /\ Events(op.log, {"start", "send"}) = {}
        /\ \A i \in 1..Len(op.log) : ~op.log[i].fresh

\* a sendToActive was rejected as disabled with failover enabled and the
\* alternate provider's adapter configured
C10_Witness ==
    /\ op.pc = "done" /\ op.kind = "send" /\ op.result.err = "disabled"
    /\ options.failoverEnabled /\ otherAgent(op.result.errAgent) \in adapters

(* C11: startForBinding calls adapter.start at most twice for a provider:   *)
(* first in resume mode with the provider's ref of the binding it was       *)
(* given, then once in fresh mode with no ref, and only after the resume    *)
(* start itself failed; when the fresh start fails too the caller rejects   *)
(* with the startup error; and at most one process was successfully         *)
(* started, exactly one once startForBinding has returned.                  *)
C11_StartRetry ==
    \A a \in AgentType :
        LET log == op.log
            starts == EventsOf(log, {"start"}, a)
            resumes == {i \in starts : ~log[i].fresh}
            freshes == {i \in starts : log[i].fresh}
            failed == EventsOf(log, {"start:failed"}, a)
            started == EventsOf(log, {"start:ok"}, a)
        IN  /\ Cardinality(starts) <= 2
            /\ Cardinality(resumes) <= 1 /\ Cardinality(freshes) <= 1
            /\ \A j \in freshes : log[j].ref = Null /\ \E i \in resumes : i < j
            /\ \A j \in freshes : \E k \in failed : k < j
            /\ op.pc = "start_resume" /\ op.agent = a =>
                 \A i \in resumes : log[i].ref = SessionRefOf(op.row, a)
            /\ Cardinality(started) <= 1
            /\ (op.pc = "done" /\ op.result.err = "startup" /\ op.result.errAgent = a) =>
                 Cardinality(failed) = 2 /\ started = {}
            /\ (op.pc \in {"send", "sa_updRef", "sa_clearPid"} /\ op.runtime # 0
                /\ procs[op.runtime].agent = a /\ starts # {}) => Cardinality(started) = 1

(* C12: every send settles exactly once, with one of the outcomes idle       *)
(* completion, idle with no output, hard timeout, unexpected exit: resolve   *)
(* or reject is called at most once and eventually once; once it is settled  *)
(* no later chunk, timer or exit changes the outcome, the text or the ref;   *)
(* and neither timer is armed and no listener attached any more.             *)
C12_SettlesOnce ==
    /\ [](/\ sendCall.settled <= 1
          /\ sendCall.pc \in {"resolved", "rejected"} <=> sendCall.settled = 1
          /\ sendCall.pc = "resolved" <=> sendCall.outcome = "completed"
          /\ sendCall.pc = "rejected" <=>
               sendCall.outcome \in {"No output", "timed out", "exited unexpectedly"}
          /\ sendCall.pc \in {"none", "waiting"} <=> sendCall.outcome = "none"
          /\ sendCall.settled = 1 =>
               /\ sendCall.idleTimer = Off /\ sendCall.hardTimer = Off
               /\ ~sendCall.listeners)
    /\ [][(sendCall.settled = 1 /\ sendCall'.pc \in {"resolved", "rejected"}) =>
            /\ sendCall'.pc = sendCall.pc /\ sendCall'.outcome = sendCall.outcome
            /\ sendCall'.text = sendCall.text /\ sendCall'.sessionRef = sendCall.sessionRef
            /\ sendCall'.settled = 1]_vars
    /\ (sendCall.pc = "waiting") ~> (sendCall.settled = 1)

\* the process exited after a send had completed
C12_Witness == sendCall.pc = "resolved" /\ ~runtime.alive /\ stopCall.pc = "none"

(* C13: a send succeeds exactly when the idle timer fires after at least one *)
(* chunk arrived since the write; every chunk received sets the idle timer   *)
(* to its full period again; and the text returned is the trimmed            *)
(* concatenation of the chunks received between the write and the            *)
(* resolution, in arrival order.                                             *)
C13_IdleCompletion ==
    /\ []((sendCall.settled = 1 /\ ~runtime.overflow) =>
            /\ sendCall.pc = "resolved" <=>
                 (sendCall.lastEvent = "idle" /\ sendCall.received # <<>>)
            /\ sendCall.pc = "resolved" => sendCall.text = Trim(sendCall.received))
    /\ [][(sendCall'.pc = "waiting" /\ sendCall'.received # sendCall.received
           /\ sendCall'.received # <<>>) =>
            sendCall'.idleTimer = IdleTicks]_vars

\* a send completed on a transcript that held earlier output, the chunks
\* received beginning with white space
C13_Witness ==
    /\ sendCall.pc = "resolved" /\ sendCall.before > 0 /\ ~runtime.overflow
    /\ Len(sendCall.received) >= 2 /\ sendCall.received[1] = Space
    /\ sendCall.text # <<>>

(* C14: when the idle timer fires and nothing was received since the write,  *)
(* the send fails with the no-output error (it does not succeed with an      *)
(* empty response) and the runtime's stored session ref is the one it had    *)
(* at the call.                                                              *)
C14_IdleNoOutput ==
    (sendCall.lastEvent = "idle" /\ sendCall.received = <<>> /\ ~runtime.overflow) =>
        /\ sendCall.pc = "rejected"
        /\ sendCall.outcome = "No output"
        /\ runtime.sessionRef = sendCall.refAtCall

\* the idle timer fired with nothing received, on a transcript that holds a
\* session identifier the runtime's ref does not
C14_Witness ==
    /\ sendCall.lastEvent = "idle" /\ sendCall.received = <<>> /\ ~runtime.overflow
    /\ sendCall.pc = "rejected"
    /\ UuidMatches(runtime.outputBuffer) # {} /\ runtime.sessionRef = NoRef

(* C15: the hard timer is armed once per send and no chunk sets it again: it *)
(* only comes closer while the send waits, the send never waits longer than  *)
(* the hard period, every send eventually settles, and a send the hard timer *)
(* ends fails with the timeout error, also when chunks kept arriving.        *)
C15_HardCeiling ==
    /\ [][(sendCall.pc = "waiting" /\ sendCall'.pc = "waiting") =>
            /\ sendCall'.hardTimer # Off
            /\ sendCall'.hardTimer <= sendCall.hardTimer]_vars
    /\ [](sendCall.pc = "waiting" => sendCall.elapsed <= HardTicks)
    /\ [](sendCall.lastEvent = "hard" =>
            sendCall.pc = "rejected" /\ sendCall.outcome = "timed out")
    /\ (sendCall.pc = "waiting") ~> (sendCall.pc \in {"resolved", "rejected"})

\* a send timed out while chunks kept the idle timer from firing
C15_Witness ==
    /\ sendCall.outcome = "timed out" /\ sendCall.hadOutput
    /\ sendCall.elapsed = HardTicks /\ runtime.alive

(* C16: when the process exits while a send waits, the send fails with the   *)
(* unexpected-exit error, whether or not output had arrived and whatever the *)
(* timers hold.                                                              *)
C16_EarlyExit ==
    [][(sendCall.pc = "waiting" /\ runtime.alive /\ ~runtime'.alive) =>
         /\ sendCall'.pc = "rejected"
         /\ sendCall'.outcome = "exited unexpectedly"
         /\ runtime'.sessionRef = sendCall.refAtCall]_vars

\* the process exited during a send after output had arrived
C16_Witness ==
    /\ sendCall.outcome = "exited unexpectedly" /\ sendCall.received # <<>>
    /\ sendCall.lastEvent = "exit"

(* C17: after a successful send the ref is the token an explicit session     *)
(* label labels when the transcript holds one, wherever a UUID occurs; the   *)
(* UUID when the transcript holds a UUID-shaped token and no labelled one;   *)
(* and the previously stored ref when it holds neither. A failed send leaves *)
(* the stored ref as it was.                                                 *)
C17_SessionRefExtraction ==
    LET buf == runtime.outputBuffer
    IN  /\ (sendCall.pc = "resolved" /\ ~runtime.overflow) =>
              /\ runtime.sessionRef = sendCall.sessionRef
              /\ LabelMatches(buf) # {} =>
                   \E i \in LabelMatches(buf) :
                      sendCall.sessionRef = IdentRun(buf, SkipSpaces(buf, i + 1))
              /\ (LabelMatches(buf) = {} /\ UuidMatches(buf) # {}) =>
                   sendCall.sessionRef = <<Uuid>>
              /\ (LabelMatches(buf) = {} /\ UuidMatches(buf) = {}) =>
                   sendCall.sessionRef = sendCall.refAtCall
        /\ sendCall.pc = "rejected" => runtime.sessionRef = sendCall.refAtCall

\* a send completed on a transcript with a UUID ahead of a labelled token
C17_Witness ==
    /\ sendCall.pc = "resolved" /\ ~runtime.overflow
    /\ LabelMatches(runtime.outputBuffer) # {} /\ UuidMatches(runtime.outputBuffer) # {}
    /\ First(UuidMatches(runtime.outputBuffer)) < First(LabelMatches(runtime.outputBuffer))
    /\ sendCall.sessionRef = <<Word>>

(* C18: stop always resolves, whatever the child process does, also when it  *)
(* survives the exit instruction, SIGTERM and SIGKILL: a stop that waits     *)
(* eventually returns, and it never waits longer than the second grace       *)
(* window.                                                                   *)
C18_StopResolves ==
    /\ (stopCall.pc = "waiting") ~> (stopCall.pc = "returned")
    /\ [](stopCall.pc = "waiting" => stopCall.elapsed <= KillTicks)
    /\ [](stopCall.pc = "returned" => stopCall.elapsed <= KillTicks)

\* stop returned on a process that survived all three
C18_Witness ==
    /\ stopCall.pc = "returned" /\ runtime.alive
    /\ stopCall.signals = <<"/exit", "SIGTERM", "SIGKILL">>

(* C19: stop sends the exit instruction first, SIGTERM only when the process *)
(* is still alive at the end of the first grace period, SIGKILL only when it *)
(* is still alive at the end of the second; and once the process has exited  *)
(* no signal is sent to it and no timer of the stop is armed.                *)
C19_Escalation ==
    /\ [](stopCall.signals \in {<<>>, <<"/exit">>, <<"/exit", "SIGTERM">>,
                                <<"/exit", "SIGTERM", "SIGKILL">>})
    /\ [][(Len(stopCall'.signals) = 2 /\ Len(stopCall.signals) = 1) =>
            runtime.alive /\ stopCall.elapsed = TermTicks]_vars
    /\ [][(Len(stopCall'.signals) = 3 /\ Len(stopCall.signals) = 2) =>
            runtime.alive /\ stopCall.elapsed = KillTicks]_vars
    /\ []((stopCall.pc # "none" /\ ~runtime.alive) =>
            stopCall.termTimer = Off /\ stopCall.killTimer = Off)

(* C20: stop returns the session ref extracted from the runtime's transcript *)
(* and, when the transcript yields none, the ref the runtime stored, both    *)
(* when the process runs at the call and when it has exited or been killed   *)
(* already.                                                                  *)
C20_StopReturnsRef ==
    (stopCall.pc = "returned" /\ ~runtime.overflow) =>
        stopCall.result =
            IF extractSessionRef(runtime.outputBuffer) # NoRef
            THEN extractSessionRef(runtime.outputBuffer)
            ELSE runtime.sessionRef

----------------------------------------------------------------------------
(* Properties of start *)

----------------------------------------------------------------------------
(* Properties of shutdownAll *)

\* what holds for an entry shutdownAll copied from the map, when shutdownAll returns
C22_EntryDone(e) ==
    LET stops == {i \in 1..Len(sd'.log) : sd'.log[i].call = "stop" /\ sd'.log[i].pid = e.pid}
        refs == {sd'.log[i].ref : i \in {j \in 1..Len(sd'.log) :
                                           /\ sd'.log[j].call = "stop:resolved"
                                           /\ sd'.log[j].pid = e.pid}}
    IN  /\ Cardinality(stops) = 1
        /\ Cardinality(refs) = 1
        /\ \A r \in refs \ {Null} :
              r = IF e.agent = "claude" THEN binding'[e.userId].claudeSessionRef
                                        ELSE binding'[e.userId].codexSessionRef
        /\ runtimePid'[e.userId][e.agent] = 0

\* C22: shutdownAll, called while no other manager operation is in flight, works
\* on every runtime the map holds at the call; when it returns each of them has
\* been stopped exactly once, each non-null ref stop returned is the ref stored
\* for that runtime's user and provider, its recorded process id is cleared, and
\* the runtime map is empty.
C22_ShutdownAll ==
    [][ /\ (sd.pc \in {"idle", "done"} /\ sd'.pc = "sd_stop") =>
              /\ op.pc \in {"idle", "done"}
              /\ [i \in 1..Len(sd'.all) |-> sd'.all[i].pid] = runtimes
        /\ (sd.pc # "done" /\ sd'.pc = "done") =>
              /\ runtimes' = <<>>
              /\ \A i \in 1..Len(sd.all) : C22_EntryDone(sd.all[i]) ]_vars

\* shutdownAll has returned after stopping the runtimes of two users, one of
\* which returned a ref
C22_Witness ==
    /\ sd.pc = "done"
    /\ Len(sd.all) = 2
    /\ \E i \in 1..Len(sd.log) : sd.log[i].call = "stop:resolved" /\ sd.log[i].ref # Null
    /\ \E i \in 1..Len(sd.log) : sd.log[i].call = "updateSessionRef"

----------------------------------------------------------------------------
(* Demotion of a disabled active provider *)

\* the operation has called an adapter
C23_UsedRuntime(o) ==
    \E i \in 1..Len(o.log) : o.log[i].call \in {"start", "stop", "send"}

\* C23: when sendToActive reads a binding whose active provider has no adapter
\* on this host, its next call is setActiveAgent(default) unless the default is
\* that active provider already; the call is made before any adapter is called,
\* and the default is the persisted active provider when it has resolved; after
\* every switchAgent or sendToActive that resolves, the user's persisted active
\* provider has an adapter.
C23_Demotion ==
    [][ /\ ( /\ op.pc = "sa_getBinding" /\ op'.pc # "sa_getBinding"
             /\ binding'[op.userId].activeAgent \notin adapters )
           => /\ ~C23_UsedRuntime(op')
              /\ \/ binding'[op.userId].activeAgent = options.defaultAgent
                 \/ /\ op'.pc = "sa_demote"
                    /\ op'.log[Len(op'.log)].call = "setActiveAgent"
                    /\ op'.log[Len(op'.log)].agent = options.defaultAgent
        /\ (op.pc = "sa_demote" /\ op'.pc # "sa_demote")
           => /\ binding'[op.userId].activeAgent = options.defaultAgent
              /\ ~C23_UsedRuntime(op)
        /\ (op'.pc = "done" /\ op'.result.status = "ok")
           => binding'[op'.userId].activeAgent \in adapters ]_vars

\* a sendToActive that demoted the active provider has resolved
C23_Witness ==
    /\ op.kind = "send"
    /\ op.pc = "done"
    /\ op.result.status = "ok"
    /\ Len(op.log) >= 2
    /\ op.log[2].call = "setActiveAgent"
    /\ op.log[2].agent = options.defaultAgent
    /\ op.row.activeAgent \notin adapters

----------------------------------------------------------------------------
(* The marker of a fresh-session retry *)

\* the operation saw a start fail and a later start of the same provider succeed
C24_FreshRetrySucceeded(o) ==
    \E i, j \in 1..Len(o.log) :
        /\ i < j
        /\ o.log[i].call = "start:failed"
        /\ o.log[j].call = "start:ok"
        /\ o.log[i].agent = o.log[j].agent

\* C24: the response of a sendToActive in which a provider's resume-mode start
\* failed and its fresh-mode retry succeeded carries a failover marker.
C24_FreshRetryMarker ==
    ( /\ op.kind = "send"
      /\ op.pc = "done"
      /\ op.result.status = "ok"
      /\ C24_FreshRetrySucceeded(op) )
    => /\ op.result.text # <<>>
       /\ op.result.text[1] = "[Failover -> "

----------------------------------------------------------------------------
(* Routing of inbound text *)

\* the text without the spaces at its ends
C25_Trimmed(rawText) ==
    LET solid == {i \in 1..Len(rawText) : rawText[i] # Space}
    IN  IF solid = {} THEN <<>>
        ELSE SubSeq(rawText, CHOOSE i \in solid : \A j \in solid : i <= j,
                             CHOOSE i \in solid : \A j \in solid : j <= i)

\* C25: routeTextInput yields switch_agent exactly when the trimmed text is
\* "/claude" or "/codex", naming that provider; any other text whose trimmed form
\* starts with "/" is a passthrough, all remaining text is a message, and the
\* payload of both is the input unchanged.
C25_Routing ==
    daemon.pc = "routed" =>
        LET rawText == daemon.batch[1].text
            text == C25_Trimmed(rawText)
            route == daemon.route
        IN  /\ route.type \in {"switch_agent", "passthrough", "message"}
            /\ route.type = "switch_agent" <=> text \in {<<Slash, "claude">>, <<Slash, "codex">>}
            /\ route.type = "switch_agent" => route.agent = text[2]
            /\ route.type = "passthrough" <=>
                  /\ text # <<>> /\ text[1] = Slash
                  /\ text \notin {<<Slash, "claude">>, <<Slash, "codex">>}
            /\ route.type \in {"passthrough", "message"} => route.payload = rawText

\* a padded command that is not a switch has been routed as a passthrough
C25_Witness ==
    /\ daemon.pc = "routed"
    /\ daemon.batch[1].text = <<Space, Slash, Letter>>
    /\ daemon.route.type = "passthrough"
    /\ daemon.route.payload = <<Space, Slash, Letter>>

----------------------------------------------------------------------------
(* The daemon calls the manager for one event at a time *)

\* C26: the message loop processes the inbound events one at a time to
\* completion: at most one switchAgent or sendToActive call is in flight, it is
\* the call made for the event being processed, and so no two such calls for
\* the same user are in flight together.
C26_SequentialCalls ==
    LET calls == SelectSeq(daemon.calls, LAMBDA c : c.kind # "shutdown")
    IN  /\ Len(calls) <= 1
        /\ \A i, j \in 1..Len(calls) : i # j => calls[i].userId # calls[j].userId
        /\ Len(calls) = 1 =>
              /\ daemon.pc \in {"switch", "send"}
              /\ calls[1].userId = UserOfPhone(daemon.batch[1].source)
        /\ daemon.pc \in {"switch", "send"} => Len(calls) = 1

\* a call is in flight while a second event of the same user waits in the batch
C26_Witness ==
    /\ daemon.pc = "send"
    /\ Len(daemon.batch) = 2
    /\ daemon.batch[2].source = daemon.batch[1].source
    /\ ~daemon.batch[2].echo
    /\ Len(daemon.calls) = 1
    /\ daemon.calls[1].kind = "send"

----------------------------------------------------------------------------
(* The stored ref after a send *)

\* the identifier the output received by the send carries: the labelled token
\* of the first label match that begins in it, else the UUID matched in it
C27_Newest ==
    LET buf == runtime.outputBuffer
        labels == {i \in LabelMatches(buf) : i > sendCall.before}
        uuids == {i \in UuidMatches(buf) : i > sendCall.before}
    IN  IF labels # {} THEN IdentRun(buf, SkipSpaces(buf, First(labels) + 1))
        ELSE IF uuids # {} THEN <<Uuid>>
        ELSE NoRef

\* C27: after a successful send whose newly received output carries a session
\* identifier, the runtime's stored ref and the returned sessionRef are that
\* identifier, whatever the earlier part of the transcript holds.
C27_TracksNewest ==
    (sendCall.pc = "resolved" /\ ~runtime.overflow /\ C27_Newest # NoRef) =>
        /\ sendCall.sessionRef = C27_Newest
        /\ runtime.sessionRef = C27_Newest

----------------------------------------------------------------------------
(* The stored ref of a provider whose send failed *)

\* the ref the store holds for the provider in the binding of the user
C28_Persisted(b, userId, agent) ==
    IF agent = "claude" THEN b[userId].claudeSessionRef ELSE b[userId].codexSessionRef

\* C28: from the failure of the first send of a sendToActive to the end of that
\* call, failover included, the ref stored for the failed provider stays what
\* it was at the failure; and a switchAgent back to that provider made next
\* starts it in resume mode with that ref.
C28_FailedRefKept ==
    [][ /\ (op'.kind = "send" /\ op'.err # Null)
           => C28_Persisted(binding', op'.userId, op'.errAgent) = op'.refAtFailure
        /\ (op'.kind = "switch" /\ op'.back # "none"
            /\ op.pc # "start_resume" /\ op'.pc = "start_resume")
           => LET start == op'.log[Len(op'.log)]
              IN  /\ start.call = "start"
                  /\ start.agent = op'.target
                  /\ ~start.fresh
                  /\ start.ref = op'.back ]_vars

\* after a failover the user switches back, and the failed provider is started
\* with the ref stored before the failure
C28_Witness ==
    /\ op.kind = "switch"
    /\ op.pc = "start_resume"
    /\ op.back = StaleRef
    /\ binding[op.userId].activeAgent = op.target
    /\ \E i \in 1..Len(op.log) : op.log[i].call = "stop"

----------------------------------------------------------------------------
(* The ref a resume-mode start is given *)

\* C29: while the manager awaits a resume-mode adapter.start for a user and a
\* provider, the ref it passed is the ref the store holds for that user and
\* provider, also when the call has just stopped a stale runtime and stored the
\* ref that stop returned.
C29_ResumeRef ==
    op.pc = "start_resume" =>
        LET start == op.log[Len(op.log)]
        IN  /\ start.call = "start"
            /\ ~start.fresh
            /\ start.agent = op.agent
            /\ start.ref = (IF op.agent = "claude" THEN binding[op.userId].claudeSessionRef
                                                   ELSE binding[op.userId].codexSessionRef)

\* sendToActive stopped a stale runtime, stored the ref stop returned and now
\* starts the provider in resume mode
C29_Witness ==
    /\ op.kind = "send"
    /\ op.pc = "start_resume"
    /\ \E i, j \in 1..Len(op.log) :
          /\ i < j
          /\ op.log[i].call = "stop"
          /\ op.log[j].call = "updateSessionRef"
          /\ op.log[j].ref # Null
          /\ op.log[j].agent = op.agent

----------------------------------------------------------------------------
(* A startup failure in sendToActive *)

\* the resume start and the fresh start of the active provider have failed, no
\* send having been made
C30_BothStartsFailed(o) ==
    /\ o.kind = "send"
    /\ \E i, j \in 1..Len(o.log) :
          /\ i < j
          /\ o.log[i].call = "start:failed" /\ o.log[i].agent = o.activeAgent
          /\ o.log[j].call = "start:failed" /\ o.log[j].agent = o.activeAgent
          /\ \A k \in 1..j : o.log[k].call # "send"

\* C30: when the resume start and the fresh start of the active provider both
\* fail in sendToActive, the call rejects with the startup error of that
\* provider; the alternate provider is neither started nor sent to, no write of
\* the active provider follows the failure, the persisted active provider is
\* the one whose start failed, and no runtime is installed for the user.
C30_StartupNoFailover ==
    C30_BothStartsFailed(op) =>
        /\ op.pc = "done"
        /\ op.result.status = "rejected"
        /\ op.result.err = "startup"
        /\ op.result.errAgent = op.activeAgent
        /\ \A i \in 1..Len(op.log) :
              /\ op.log[i].call \in {"start", "send"} => op.log[i].agent = op.activeAgent
              /\ op.log[i].call # "send"
              /\ op.log[i].call = "setActiveAgent" =>
                    \A j \in 1..Len(op.log) : op.log[j].call = "start" => i < j
        /\ binding[op.userId].activeAgent = op.activeAgent
        /\ \A i \in 1..Len(runtimes) : procs[runtimes[i]].userId # op.userId

\* both starts failed while failover was enabled and the alternate had an adapter
C30_Witness ==
    /\ C30_BothStartsFailed(op)
    /\ op.pc = "done"
    /\ options.failoverEnabled
    /\ adapters = AgentType

----------------------------------------------------------------------------
(* Failover happens once *)

\* C31: a sendToActive invokes adapter.send at most twice; when the resend to
\* the alternate provider fails too, the call rejects with the alternate's
\* error, nothing is written after that failure, the persisted active provider
\* is the alternate, and the alternate's runtime stays in the map with its
\* recorded process id.
C31_FailoverOnce ==
    op.kind = "send" =>
        LET sends == Events(op.log, {"send"})
            failed == Events(op.log, {"send:failed"})
        IN  /\ Cardinality(sends) <= 2
            /\ Cardinality(failed) >= 2 =>
                  LET last == CHOOSE i \in failed : \A j \in failed : j <= i
                      first == CHOOSE i \in failed : \A j \in failed : i <= j
                      alternate == otherAgent(op.log[first].agent)
                      rt == RuntimeOf(runtimes, op.userId)
                  IN  /\ Cardinality(failed) = 2
                      /\ last = Len(op.log)
                      /\ op.log[last].agent = alternate
                      /\ op.pc = "done"
                      /\ op.result.status = "rejected"
                      /\ op.result.err = op.log[last].err
                      /\ op.result.errAgent = alternate
                      /\ binding[op.userId].activeAgent = alternate
                      /\ rt # 0
                      /\ procs[rt].agent = alternate
                      /\ runtimePid[op.userId][alternate] = rt

\* the first send and the resend to the alternate have both failed
C31_Witness ==
    /\ op.kind = "send"
    /\ op.pc = "done"
    /\ Cardinality(Events(op.log, {"send:failed"})) = 2
    /\ op.result.status = "rejected"

----------------------------------------------------------------------------
(* A switch whose target cannot be started *)

\* the switchAgent stopped the installed runtime and both starts of the target failed
C32_StoppedAndFailed(o) ==
    /\ o.kind = "switch"
    /\ Events(o.log, {"stop"}) # {}
    /\ Cardinality(EventsOf(o.log, {"start:failed"}, o.target)) = 2

\* C32: when switchAgent(u, target) has stopped the previous runtime and both
\* starts of the target fail, the call rejects with the startup error; the
\* persisted active provider is the target and is not written back, the ref the
\* stop returned is the ref stored for the previous provider, the previous
\* provider is not restarted and the user has no entry in the runtime map.
C32_NoRollback ==
    C32_StoppedAndFailed(op) =>
        LET stop == CHOOSE i \in Events(op.log, {"stop"}) : TRUE
            previous == op.log[stop].agent
        IN  /\ op.pc = "done"
            /\ op.result.status = "rejected"
            /\ op.result.err = "startup"
            /\ previous # op.target
            /\ binding[op.userId].activeAgent = op.target
            /\ \A i \in Events(op.log, {"setActiveAgent"}) : op.log[i].agent = op.target
            /\ op.stoppedRef # Null =>
                  /\ (IF previous = "claude" THEN binding[op.userId].claudeSessionRef
                                             ELSE binding[op.userId].codexSessionRef) = op.stoppedRef
                  /\ \E i \in EventsOf(op.log, {"updateSessionRef"}, previous) :
                        op.log[i].ref = op.stoppedRef
            /\ EventsOf(op.log, {"start"}, previous) = {}
            /\ \A i \in 1..Len(runtimes) : procs[runtimes[i]].userId # op.userId
            /\ ~InMap(op.log[stop].pid)

\* a switch that stored the ref of the runtime it stopped could start nothing
C32_Witness ==
    /\ C32_StoppedAndFailed(op)
    /\ op.pc = "done"
    /\ op.stoppedRef # Null

\* C33: when shutdownAll was invoked while a sendToActive or switchAgent was
\* suspended, then once shutdownAll has resolved the runtime map is empty and
\* no child process started by the manager is still alive without a stop.
C33_TeardownComplete ==
    (sd.pc = "done" /\ sd.during) =>
        /\ runtimes = <<>>
        /\ \A pid \in 1..Len(procs) : ~procs[pid].alive

\* C34: whenever no switchAgent or sendToActive is in flight and a runtime is
\* installed for a user, the provider of that runtime is the binding's
\* persisted active provider.
C34_RuntimeIsActive ==
    NoCall =>
        \A i \in 1..Len(runtimes) :
            /\ binding[procs[runtimes[i]].userId].userId # Null
            /\ procs[runtimes[i]].agent = binding[procs[runtimes[i]].userId].activeAgent

\* a switch from an installed provider to the other one has resolved and the
\* runtime of the target is installed
C34_Witness ==
    /\ SwitchedDone /\ op.err = Null
    /\ \E i \in 1..Len(runtimes) :
          /\ procs[runtimes[i]].userId = op.userId
          /\ procs[runtimes[i]].agent = op.target
          /\ binding[op.userId].activeAgent = op.target

\* C35: the manager calls updateSessionRef only with a non-null ref, and a
\* persisted (user, provider) ref that is non-null stays non-null through
\* every step of switch, send, failover, fresh-start retry and shutdown.
C35_RefNeverErased ==
    [][/\ \A u \in Users :
            binding[u].userId # Null =>
                /\ binding'[u].userId # Null
                /\ binding[u].claudeSessionRef # Null => binding'[u].claudeSessionRef # Null
                /\ binding[u].codexSessionRef # Null => binding'[u].codexSessionRef # Null
       /\ \A i \in 1..Len(op'.log) :
            op'.log[i].call = "updateSessionRef" => op'.log[i].ref # Null
       /\ \A i \in 1..Len(sd'.log) :
            sd'.log[i].call = "updateSessionRef" => sd'.log[i].ref # Null]_vars

\* a call started a runtime from a persisted ref, stopped it, the stop yielded
\* no ref, and the persisted ref is still there
C35_Witness ==
    /\ op.pc = "done"
    /\ op.stoppedRef = Null
    /\ \E i, j \in 1..Len(op.log) :
          /\ i < j
          /\ op.log[i].call = "stop:resolved"
          /\ op.log[j].call \in {"setActiveAgent", "start"}
          /\ \/ op.log[i].agent = "claude" /\ binding[op.userId].claudeSessionRef # Null
             \/ op.log[i].agent = "codex" /\ binding[op.userId].codexSessionRef # Null
          /\ Events(op.log, {"updateSessionRef"}) = {}

----------------------------------------------------------------------------
(* Isolation of users *)

\* the entry the map holds for a user, 0 when none
C36_Entry(rts, p, v) ==
    IF \E i \in 1..Len(rts) : p[rts[i]].userId = v
    THEN rts[CHOOSE i \in 1..Len(rts) : p[rts[i]].userId = v]
    ELSE 0

\* C36: every step of a switchAgent or sendToActive of user u, failure and
\* failover paths included, leaves the binding row, the recorded process ids,
\* the map entry and the processes of every other user unchanged, and every
\* adapter.start it issues carries no ref (fresh) or the ref of the provider in
\* u's own binding snapshot; the ref persisted for u1 by an earlier run is
\* never passed to a start made for u2.
C36_Isolation ==
    [][(op' # op /\ op'.kind \in {"switch", "send"}) =>
          /\ \A v \in Users \ {op'.userId} :
                /\ binding'[v] = binding[v]
                /\ runtimePid'[v] = runtimePid[v]
                /\ C36_Entry(runtimes', procs', v) = C36_Entry(runtimes, procs, v)
                /\ \A pid \in 1..Len(procs) : procs[pid].userId = v => procs'[pid] = procs[pid]
          /\ \A i \in 1..Len(op'.log) :
                (op'.log[i].call = "start" /\ (i > Len(op.log) \/ op.pc \in {"idle", "done"})) =>
                    /\ op'.row.userId = op'.userId
                    /\ op'.log[i].ref =
                          IF op'.log[i].fresh THEN Null
                          ELSE IF op'.log[i].agent = "claude" THEN op'.row.claudeSessionRef
                          ELSE op'.row.codexSessionRef
                    /\ op'.userId = "u2" => op'.log[i].ref # StaleRef]_vars

\* a sendToActive of u2 that wrote the active provider and issued two starts
\* has ended while u1 holds a persisted ref and an installed runtime
C36_Witness ==
    /\ op.pc = "done" /\ op.kind = "send" /\ op.userId = "u2"
    /\ Events(op.log, {"setActiveAgent"}) # {}
    /\ Cardinality(Events(op.log, {"start"})) >= 2
    /\ C36_Entry(runtimes, procs, "u1") # 0
    /\ StaleRef \in {binding["u1"].claudeSessionRef, binding["u1"].codexSessionRef}

----------------------------------------------------------------------------
(* Start arguments *)

\* C37: the arguments adapter.start builds: none in fresh mode, whatever the
\* session ref; otherwise with a known ref the explicit resume form with
\* exactly that ref (claude: --resume <ref>; codex: resume <ref>), and with no
\* ref the continue-most-recent form (claude: --continue; codex: resume --last).
C37_StartArgs ==
    startCall.pc # "none" =>
        /\ startCall.fresh => startCall.args = <<>>
        /\ (~startCall.fresh /\ startCall.sessionRef # NoRef) =>
              /\ Len(startCall.args) = 1 + Len(startCall.sessionRef)
              /\ startCall.args[1] = (IF startCall.agent = "claude" THEN "--resume" ELSE "resume")
              /\ Tail(startCall.args) = startCall.sessionRef
        /\ (~startCall.fresh /\ startCall.sessionRef = NoRef) =>
              startCall.args = (IF startCall.agent = "claude" THEN <<"--continue">>
                                ELSE <<"resume", "--last">>)

\* a start in fresh mode that was handed a session ref has resolved
C37_Witness ==
    /\ startCall.pc = "resolved"
    /\ startCall.fresh
    /\ startCall.sessionRef = <<StaleRef>>
    /\ startCall.args = <<>>

----------------------------------------------------------------------------
(* The whitelist gate of processInboundEvent *)

\* the sender of the event being processed
C38_Source == daemon.batch[1].source

\* C38: an inbound event whose sender has no row or is revoked when the daemon
\* looks the sender up is answered with a notice and makes no switchAgent or
\* sendToActive call; the event of a pending user makes that user active
\* before anything else is done with it; and a user whose status is revoked
\* does not become active through the processing of an inbound event.
C38_WhitelistGate ==
    [][/\ (daemon.pc = "getUser" /\ daemon'.pc \notin {"getUser", "exited"}) =>
            daemon'.pc = (IF daemon.users[C38_Source] \in {"none", "revoked"} THEN "deny"
                          ELSE IF daemon.users[C38_Source] = "pending" THEN "activate"
                          ELSE "insert")
       /\ (daemon.pc = "deny" /\ daemon'.pc \notin {"deny", "exited"}) =>
            /\ daemon'.pc \in {"getUser", "cleanup"}
            /\ daemon'.batch = SkipEchoes(Tail(daemon.batch))
       /\ (Len(daemon'.calls) > Len(daemon.calls)
           /\ daemon'.calls[Len(daemon'.calls)].kind \in {"switch", "send"}) =>
            /\ daemon.pc = "insert"
            /\ daemon'.calls[Len(daemon'.calls)].userId = UserOfPhone(C38_Source)
       /\ (daemon'.pc = "insert" /\ daemon.pc # "insert") => daemon.pc \in {"getUser", "activate"}
       /\ (daemon.pc = "activate" /\ daemon'.pc \notin {"activate", "exited"}) =>
            /\ daemon'.pc = "insert"
            /\ daemon'.users[C38_Source] = "active"
       /\ \A phone \in Phones :
            /\ daemon.users[phone] = "revoked" => daemon'.users[phone] # "active"
            /\ daemon.users[phone] = "none" => daemon'.users[phone] = "none"]_vars

----------------------------------------------------------------------------
(* chunkText *)

RECURSIVE C39_Concat(_)
C39_Concat(chunks) ==
    IF chunks = <<>> THEN <<>> ELSE Head(chunks) \o C39_Concat(Tail(chunks))

\* C39: chunkText(text, size) returns for every text and every integer size:
\* every iteration of its loop moves index forward, so that the loop ends after
\* at most text.length iterations; and the chunks it returns, joined in order,
\* are the text, each of them of length at most size.
C39_ChunkText ==
    [][/\ (daemon.chunk.pc = "while" /\ daemon'.chunk.pc = "while") =>
            daemon'.chunk.index > daemon.chunk.index
       /\ daemon'.chunk.pc = "returned" =>
            /\ C39_Concat(daemon'.chunk.chunks) = daemon'.chunk.text
            /\ \A i \in 1..Len(daemon'.chunk.chunks) :
                  Len(daemon'.chunk.chunks[i]) <= daemon'.chunk.size]_vars
====
